---- MODULE Spec2Model ----
(***************************************************************************)
(* TradingApp: POSIX shared-memory transport between the C++ producer and  *)
(* its readers.                                                            *)
(*                                                                         *)
(*   RegionSpec  the region manager (C++/src/shared_code.h and the         *)
(*               SharedMemory<T> wrapper of include/shared_code.h) driven  *)
(*               by arbitrary processes, at system-call granularity.       *)
(*   Spec        the producer of C++/src/main.cpp publishing into the      *)
(*               segment while consumers copy the record out of it.        *)
(*   SeqSpec     the sequence-number writer and reader of the guide        *)
(*               (unnamed/part_006, section 10.4).                         *)
(*   HandleSpec  one creator and the attaching consumers, without failing  *)
(*               system calls, with the addresses mmap hands out.          *)
(*   LaunchSpec  main.cpp launching the Python child with fork and exec,   *)
(*               and its signal handler stopping and reaping it.           *)
(*   LauncherSpec the PythonLauncher of include/python_launcher.h: its     *)
(*               start, update, stop and restart and the child's exits.    *)
(*   AutoSpec    the same launcher constructed with auto_restart set or    *)
(*               not.                                                      *)
(*   ReadersSpec the sequence-number writer with readers that attach,      *)
(*               read with retries and detach.                             *)
(*   SystemSpec  TradingSystem of C++/src/python_launcher.cpp: its         *)
(*               initialize, simulation loop, shutdown and destruction     *)
(*               around the PythonLauncher.                                *)
(***************************************************************************)
EXTENDS Integers, Sequences, FiniteSets, TLC

\* ------------------------------------------------------------------ bounds
\* segment objects the kernel hands out in one behaviour
MaxSegs == 2
\* iterations of the writer loop in one behaviour
MaxPublish == 2
\* a reader's count of rejected attempts is not tracked beyond this
MaxAttempts == 2
\* seconds a blocked wait for the child is followed
MaxWait == 11
\* children a PythonLauncher forks in one behaviour
MaxSpawn == 5

\* ------------------------------------------------------- program constants
\* sizeof(TradingData) of the C++ build and STRUCT_SIZE of the consumers
SizeofTradingData == 24
\* the record size of a build that embeds the 64-bit sequence counter
SizeofSeqData == 32

Procs == {1, 2, 3}
\* the processes that call the region manager in RegionSpec
Callers == {1, 2}
\* the producer process and the processes that can read the segment
Writer == 1
Readers == {2, 3}
\* the consumer that main.cpp runs against (launch_python_process)
Consumers == {2}
\* values price_dist / volume_dist can produce
Prices == {1, 2}
Volumes == {1, 2}
ShmName == "/trading_data"
Names == {ShmName}
Sizes == {SizeofTradingData, SizeofSeqData}
SegIds == 1..MaxSegs
NoSeg == 0

\* errno values that the model distinguishes; errno keeps the value of the
\* last failing call, a successful call leaves it alone
ENOENT == "ENOENT"
EEXIST == "EEXIST"
EACCES == "EACCES"
EINVAL == "EINVAL"
ENOMEM == "ENOMEM"
NoErr == "none"

\* what() of the exceptions thrown by the region manager, and success
EX_EXISTS == "Shared memory already exists - use attach mode"
EX_CREATE == "Failed to create shared memory: "
EX_SETSIZE == "Failed to set shared memory size"
EX_MAP == "Failed to map shared memory"
EX_OPEN == "Failed to open existing shared memory"
EX_MAPEXISTING == "Failed to map existing shared memory"
OK == "ok"
\* the two results of destroy_memory_block
UNLINKED == "true"
NOT_UNLINKED == "false"
\* detach_from_memory_block returned true
DETACHED == "detached"
\* the process was ended by a signal it has no handler for
KILLED == "killed"
NoOutcome == "-"
\* PythonLauncher::Config: shutdown_timeout{10}, max_restart_attempts = 3
shutdown_timeout == 10
max_restart_attempts == 3
\* the addresses at which the kernel can place a process's mapping
Addrs == {1, 2}

\* TradingData, plus the sequence member of the guide's variant
InitRecord ==
    [sequence |-> 0, price |-> 0, timestamp |-> 0, volume |-> 0, valid |-> FALSE]

\* a fresh shared memory object: length 0, reads as zero bytes once sized;
\* creator records the process whose shm_open(O_CREAT) made the object
ZeroSegment == [size |-> 0, rec |-> InitRecord, creator |-> 0]

VARIABLES
    ns,            \* shared-memory namespace: name -> segment object or NoSeg
    segs,          \* segment objects: size in bytes and the record stored
    nsegs,         \* number of segment objects created so far
    pc,            \* per process: position inside create/attach
    fd,            \* per process: object its open descriptor refers to
    raw_memory_,   \* per process: SharedMemory::raw_memory_ (NoSeg = nullptr)
    mapSize,       \* per process: length of its mapping
    owner_,        \* per process: SharedMemory::owner_
    filename_,     \* per process: SharedMemory::filename_
    reqSize,       \* per process: size argument of the call in progress
    outcome,       \* per process: result of its last region operation
    errno_,        \* per process: errno, set by its last failing call
    wpc,           \* producer: position in main()
    running,       \* std::atomic<bool> running
    tick,          \* producer: int tick
    now,           \* system_clock, in seconds
    current_price, \* producer: local current_price (new_price)
    current_volume,\* producer: local current_volume
    timestamp,     \* producer: local timestamp (new_time)
    published,     \* history: the records the producer has begun to publish
    rpc,           \* per reader: position in its read
    rbuf,          \* per reader: the fields copied out so far
    rloaded,       \* per reader: which fields rbuf holds
    seq1,          \* per reader: local seq1
    seq2,          \* per reader: local seq2
    attempts,      \* per reader: rejected attempts of the read in progress
    snap,          \* per reader: the record its last completed read returned
    python_pid,    \* main.cpp: pid_t python_pid
    pid,           \* launch_python_process: local pid, the result of fork()
    child,         \* the forked child process as the kernel sees it
    exitst,        \* how the child ended, once it has
    hpc,           \* position inside signal_handler / PythonLauncher::stop
    out,           \* the status lines the owning process has printed
    waited,        \* seconds spent so far in the wait of the stop in progress
    state_,        \* PythonLauncher::state_
    process_pid_,  \* PythonLauncher::process_pid_
    restart_count_,\* PythonLauncher::restart_count_
    spawned,       \* number of children the launcher has forked so far
    spc,           \* PythonLauncher: position inside restart()
    callbacks,     \* callbacks invoked for the current child, in order
    ret,           \* PythonLauncher: result of the last call
    auto_restart,  \* PythonLauncher::Config::auto_restart
    addr,          \* per process: address at which its mapping sits (0: none)
    block          \* per process: the pointer it last detached, and how often

regionVars == <<ns, segs, nsegs, pc, fd, raw_memory_, mapSize, owner_,
                filename_, reqSize, outcome, errno_>>

writerVars == <<wpc, running, tick, now, current_price, current_volume,
                timestamp, published>>

readerVars == <<rpc, rbuf, rloaded, seq1, seq2, attempts, snap>>

childVars == <<python_pid, pid, child, exitst, hpc, out, waited>>

launcherVars == <<state_, process_pid_, restart_count_, spawned, spc,
                  callbacks, ret, auto_restart>>

\* the variables that the region manager's operations do not touch
procVars == <<python_pid, pid, child, exitst, hpc, out, waited,
              state_, process_pid_, restart_count_, spawned, spc,
              callbacks, ret, auto_restart, addr, block>>

vars == <<ns, segs, nsegs, pc, fd, raw_memory_, mapSize, owner_,
          filename_, reqSize, outcome, errno_,
          wpc, running, tick, now, current_price, current_volume,
          timestamp, published,
          rpc, rbuf, rloaded, seq1, seq2, attempts, snap,
          python_pid, pid, child, exitst, hpc, out, waited,
          state_, process_pid_, restart_count_, spawned, spc,
          callbacks, ret, auto_restart, addr, block>>

\* the payload members of TradingData, in declaration (offset) order
Fields == {"price", "timestamp", "volume", "valid"}
NoSnap == [none |-> TRUE]
Payload(r) == [f \in Fields |-> r[f]]

ProgInit ==
    /\ wpc = "cleanup"
    /\ running = TRUE
    /\ tick = 0
    /\ now = 1
    /\ current_price = 0
    /\ current_volume = 0
    /\ timestamp = 0
    /\ published = {}
    /\ rpc = [r \in Readers |-> "idle"]
    /\ rbuf = [r \in Readers |-> InitRecord]
    /\ rloaded = [r \in Readers |-> {}]
    /\ seq1 = [r \in Readers |-> 0]
    /\ seq2 = [r \in Readers |-> 0]
    /\ attempts = [r \in Readers |-> 0]
    /\ snap = [r \in Readers |-> NoSnap]

\* no pointer detached yet
NoBlock == [ptr |-> 0, calls |-> 0]

\* main.cpp before launch_python_process, and a PythonLauncher as constructed
\* from a Config whose auto_restart is auto
ProcInitWith(auto) ==
    /\ python_pid = 0
    /\ pid = 0
    /\ child = "none"
    /\ exitst = "-"
    /\ hpc = "none"
    /\ out = {}
    /\ waited = 0
    /\ state_ = "NOT_STARTED"
    /\ process_pid_ = -1
    /\ restart_count_ = 0
    /\ spawned = 0
    /\ spc = "idle"
    /\ callbacks = <<>>
    /\ ret = "-"
    /\ auto_restart = auto
    /\ addr = [p \in Procs |-> 0]
    /\ block = [p \in Procs |-> NoBlock]

\* the default Config: bool auto_restart = false
ProcInit == ProcInitWith(FALSE)

RegionInit ==
    /\ ns = [n \in Names |-> NoSeg]
    /\ segs = [s \in SegIds |-> ZeroSegment]
    /\ nsegs = 0
    /\ pc = [p \in Procs |-> "idle"]
    /\ fd = [p \in Procs |-> NoSeg]
    /\ raw_memory_ = [p \in Procs |-> NoSeg]
    /\ mapSize = [p \in Procs |-> 0]
    /\ owner_ = [p \in Procs |-> FALSE]
    /\ filename_ = [p \in Procs |-> "/trading_data"]
    /\ reqSize = [p \in Procs |-> 0]
    /\ outcome = [p \in Procs |-> NoOutcome]
    /\ errno_ = [p \in Procs |-> NoErr]

\* --------------------------------------------------------- create_memory_block
\* shm_open with O_CREAT but without O_EXCL: an existing object is opened
CreateOpen_NoExcl(p, name, size, err) ==
    /\ pc[p] = "idle"
    /\ raw_memory_[p] = NoSeg
    /\ filename_' = [filename_ EXCEPT ![p] = name]
    /\ reqSize' = [reqSize EXCEPT ![p] = size]
    /\ owner_' = [owner_ EXCEPT ![p] = TRUE]
    /\ IF err # NoErr
       THEN /\ outcome' = [outcome EXCEPT ![p] = EX_CREATE]
            /\ errno_' = [errno_ EXCEPT ![p] = err]
            /\ UNCHANGED <<ns, segs, nsegs, pc, fd>>
       ELSE IF ns[name] # NoSeg
       THEN /\ fd' = [fd EXCEPT ![p] = ns[name]]
            /\ pc' = [pc EXCEPT ![p] = "ftruncate"]
            /\ outcome' = [outcome EXCEPT ![p] = NoOutcome]
            /\ UNCHANGED errno_
            /\ UNCHANGED <<ns, segs, nsegs>>
       ELSE /\ nsegs < MaxSegs
            /\ nsegs' = nsegs + 1
            /\ segs' = [segs EXCEPT ![nsegs + 1] =
                            [ZeroSegment EXCEPT !.creator = p]]
            /\ ns' = [ns EXCEPT ![name] = nsegs + 1]
            /\ fd' = [fd EXCEPT ![p] = nsegs + 1]
            /\ pc' = [pc EXCEPT ![p] = "ftruncate"]
            /\ outcome' = [outcome EXCEPT ![p] = NoOutcome]
            /\ UNCHANGED errno_
    /\ UNCHANGED <<raw_memory_, mapSize>>

\* shm_open(filename, O_CREAT | O_EXCL | O_RDWR, 0666) and its error branch
CreateOpen(p, name, size, err) ==
    /\ pc[p] = "idle"
    /\ raw_memory_[p] = NoSeg
    /\ filename_' = [filename_ EXCEPT ![p] = name]
    /\ reqSize' = [reqSize EXCEPT ![p] = size]
    /\ owner_' = [owner_ EXCEPT ![p] = TRUE]
    /\ IF ns[name] # NoSeg
       THEN /\ outcome' = [outcome EXCEPT ![p] = EX_EXISTS]
            /\ errno_' = [errno_ EXCEPT ![p] = EEXIST]
            /\ UNCHANGED <<ns, segs, nsegs, pc, fd>>
       ELSE IF err # NoErr
       THEN /\ outcome' = [outcome EXCEPT ![p] = EX_CREATE]
            /\ errno_' = [errno_ EXCEPT ![p] = err]
            /\ UNCHANGED <<ns, segs, nsegs, pc, fd>>
       ELSE /\ nsegs < MaxSegs
            /\ nsegs' = nsegs + 1
            /\ segs' = [segs EXCEPT ![nsegs + 1] =
                            [ZeroSegment EXCEPT !.creator = p]]
            /\ ns' = [ns EXCEPT ![name] = nsegs + 1]
            /\ fd' = [fd EXCEPT ![p] = nsegs + 1]
            /\ pc' = [pc EXCEPT ![p] = "ftruncate"]
            /\ outcome' = [outcome EXCEPT ![p] = NoOutcome]
            /\ UNCHANGED errno_
    /\ UNCHANGED <<raw_memory_, mapSize>>

\* ftruncate(shm_fd, size); on failure close, shm_unlink and throw
CreateTruncate(p, fail) ==
    /\ pc[p] = "ftruncate"
    /\ IF fail
       THEN /\ ns' = [ns EXCEPT ![filename_[p]] = NoSeg]
            /\ fd' = [fd EXCEPT ![p] = NoSeg]
            /\ pc' = [pc EXCEPT ![p] = "idle"]
            /\ outcome' = [outcome EXCEPT ![p] = EX_SETSIZE]
            /\ errno_' = [errno_ EXCEPT ![p] = EINVAL]
            /\ UNCHANGED segs
       ELSE /\ segs' = [segs EXCEPT ![fd[p]].size = reqSize[p]]
            /\ pc' = [pc EXCEPT ![p] = "mmap"]
            /\ UNCHANGED <<ns, fd, outcome, errno_>>
    /\ UNCHANGED <<nsegs, raw_memory_, mapSize, owner_, filename_, reqSize>>

\* a mapping failure that throws without shm_unlink
CreateMap_KeepsName(p, fail) ==
    /\ pc[p] = "mmap"
    /\ fd' = [fd EXCEPT ![p] = NoSeg]
    /\ IF fail
       THEN /\ pc' = [pc EXCEPT ![p] = "idle"]
            /\ outcome' = [outcome EXCEPT ![p] = EX_MAP]
            /\ errno_' = [errno_ EXCEPT ![p] = ENOMEM]
            /\ UNCHANGED <<ns, raw_memory_, mapSize>>
       ELSE /\ raw_memory_' = [raw_memory_ EXCEPT ![p] = fd[p]]
            /\ mapSize' = [mapSize EXCEPT ![p] = reqSize[p]]
            /\ pc' = [pc EXCEPT ![p] = "construct"]
            /\ UNCHANGED <<ns, outcome, errno_>>
    /\ UNCHANGED <<segs, nsegs, owner_, filename_, reqSize>>

\* mmap(nullptr, size, ..., MAP_SHARED, shm_fd, 0); close(shm_fd);
\* on MAP_FAILED shm_unlink and throw, else return memory
CreateMap(p, fail) ==
    /\ pc[p] = "mmap"
    /\ fd' = [fd EXCEPT ![p] = NoSeg]
    /\ IF fail
       THEN /\ ns' = [ns EXCEPT ![filename_[p]] = NoSeg]
            /\ pc' = [pc EXCEPT ![p] = "idle"]
            /\ outcome' = [outcome EXCEPT ![p] = EX_MAP]
            /\ errno_' = [errno_ EXCEPT ![p] = ENOMEM]
            /\ UNCHANGED <<raw_memory_, mapSize>>
       ELSE /\ raw_memory_' = [raw_memory_ EXCEPT ![p] = fd[p]]
            /\ mapSize' = [mapSize EXCEPT ![p] = reqSize[p]]
            /\ pc' = [pc EXCEPT ![p] = "construct"]
            /\ UNCHANGED <<ns, outcome, errno_>>
    /\ UNCHANGED <<segs, nsegs, owner_, filename_, reqSize>>

\* SharedMemory<T>::SharedMemory, create branch: new(raw_memory_) T{}
CtorInit(p) ==
    /\ pc[p] = "construct"
    /\ segs' = [segs EXCEPT ![raw_memory_[p]].rec = InitRecord]
    /\ pc' = [pc EXCEPT ![p] = "idle"]
    /\ outcome' = [outcome EXCEPT ![p] = OK]
    /\ UNCHANGED <<ns, nsegs, fd, raw_memory_, mapSize, owner_, filename_,
                   reqSize, errno_>>

\* --------------------------------------------------------- attach_memory_block
\* shm_open(filename, O_RDWR, 0): every failure throws the same exception
AttachOpen(p, name, size, err) ==
    /\ pc[p] = "idle"
    /\ raw_memory_[p] = NoSeg
    /\ filename_' = [filename_ EXCEPT ![p] = name]
    /\ reqSize' = [reqSize EXCEPT ![p] = size]
    /\ owner_' = [owner_ EXCEPT ![p] = FALSE]
    /\ IF ns[name] = NoSeg \/ err # NoErr
       THEN /\ outcome' = [outcome EXCEPT ![p] = EX_OPEN]
            /\ errno_' = [errno_ EXCEPT ![p] =
                             IF ns[name] = NoSeg THEN ENOENT ELSE err]
            /\ UNCHANGED <<pc, fd>>
       ELSE /\ fd' = [fd EXCEPT ![p] = ns[name]]
            /\ pc' = [pc EXCEPT ![p] = "attach_mmap"]
            /\ outcome' = [outcome EXCEPT ![p] = NoOutcome]
            /\ UNCHANGED errno_
    /\ UNCHANGED <<ns, segs, nsegs, raw_memory_, mapSize>>

\* an attach that constructs the record in place, as the create branch does
AttachMap_Constructs(p, fail) ==
    /\ pc[p] = "attach_mmap"
    /\ fd' = [fd EXCEPT ![p] = NoSeg]
    /\ pc' = [pc EXCEPT ![p] = "idle"]
    /\ IF fail
       THEN /\ outcome' = [outcome EXCEPT ![p] = EX_MAPEXISTING]
            /\ errno_' = [errno_ EXCEPT ![p] = ENOMEM]
            /\ UNCHANGED <<raw_memory_, mapSize, segs>>
       ELSE /\ raw_memory_' = [raw_memory_ EXCEPT ![p] = fd[p]]
            /\ mapSize' = [mapSize EXCEPT ![p] = reqSize[p]]
            /\ outcome' = [outcome EXCEPT ![p] = OK]
            /\ segs' = [segs EXCEPT ![fd[p]].rec = InitRecord]
            /\ UNCHANGED errno_
    /\ UNCHANGED <<ns, nsegs, owner_, filename_, reqSize>>

\* mmap(nullptr, size, ..., MAP_SHARED, shm_fd, 0) with the caller's size,
\* whatever the length of the object; close(shm_fd); throw on MAP_FAILED
AttachMap(p, fail) ==
    /\ pc[p] = "attach_mmap"
    /\ fd' = [fd EXCEPT ![p] = NoSeg]
    /\ pc' = [pc EXCEPT ![p] = "idle"]
    /\ IF fail
       THEN /\ outcome' = [outcome EXCEPT ![p] = EX_MAPEXISTING]
            /\ errno_' = [errno_ EXCEPT ![p] = ENOMEM]
            /\ UNCHANGED <<raw_memory_, mapSize>>
       ELSE /\ raw_memory_' = [raw_memory_ EXCEPT ![p] = fd[p]]
            /\ mapSize' = [mapSize EXCEPT ![p] = reqSize[p]]
            /\ outcome' = [outcome EXCEPT ![p] = OK]
            /\ UNCHANGED errno_
    /\ UNCHANGED <<ns, segs, nsegs, owner_, filename_, reqSize>>

\* ------------------------------------------- detach / destroy / ~SharedMemory
\* a destroy that reports its result without removing the name
destroy_memory_block_KeepsName(p, name) ==
    /\ pc[p] = "idle"
    /\ outcome' = [outcome EXCEPT ![p] =
                       IF ns[name] # NoSeg THEN UNLINKED ELSE NOT_UNLINKED]
    /\ UNCHANGED <<ns, segs, nsegs, pc, fd, raw_memory_, mapSize, owner_,
                   filename_, reqSize, errno_>>

\* shm_unlink(filename) != -1
destroy_memory_block(p, name) ==
    /\ pc[p] = "idle"
    /\ ns' = [ns EXCEPT ![name] = NoSeg]
    /\ outcome' = [outcome EXCEPT ![p] =
                       IF ns[name] # NoSeg THEN UNLINKED ELSE NOT_UNLINKED]
    /\ UNCHANGED <<segs, nsegs, pc, fd, raw_memory_, mapSize, owner_,
                   filename_, reqSize, errno_>>

\* a destructor that detaches and leaves the owner's name in place
Dtor_NoDestroy(p) ==
    /\ pc[p] = "idle"
    /\ raw_memory_[p] # NoSeg
    /\ raw_memory_' = [raw_memory_ EXCEPT ![p] = NoSeg]
    /\ mapSize' = [mapSize EXCEPT ![p] = 0]
    /\ outcome' = [outcome EXCEPT ![p] = NoOutcome]
    /\ UNCHANGED <<ns, segs, nsegs, pc, fd, owner_, filename_, reqSize, errno_>>

\* ~SharedMemory: munmap when mapped, then shm_unlink when owner
Dtor(p) ==
    /\ pc[p] = "idle"
    /\ raw_memory_[p] # NoSeg
    /\ raw_memory_' = [raw_memory_ EXCEPT ![p] = NoSeg]
    /\ mapSize' = [mapSize EXCEPT ![p] = 0]
    /\ ns' = IF owner_[p] THEN [ns EXCEPT ![filename_[p]] = NoSeg] ELSE ns
    /\ outcome' = [outcome EXCEPT ![p] = NoOutcome]
    /\ UNCHANGED <<segs, nsegs, pc, fd, owner_, filename_, reqSize, errno_>>

\* data->price.store(100.50) of the creating program: a store through get()
\* into the record of the segment the caller created and has mapped
DemoStore(p) ==
    /\ pc[p] = "idle"
    /\ raw_memory_[p] # NoSeg
    /\ owner_[p]
    /\ segs[raw_memory_[p]].rec.price = 0
    /\ segs' = [segs EXCEPT ![raw_memory_[p]].rec.price = 1]
    /\ UNCHANGED <<ns, nsegs, pc, fd, raw_memory_, mapSize, owner_, filename_,
                   reqSize, outcome, errno_>>

\* the state before any process has touched the segment
Init == RegionInit /\ ProgInit /\ ProcInit

\* ---------------------------------------------------------------- RegionSpec
RegionStep ==
    \/ \E p \in Callers, n \in Names, s \in Sizes, e \in {NoErr, EACCES} :
          CreateOpen(p, n, s, e)
    \/ \E p \in Callers, f \in BOOLEAN : CreateTruncate(p, f)
    \/ \E p \in Callers, f \in BOOLEAN : CreateMap(p, f)
    \/ \E p \in Callers : CtorInit(p)
    \/ \E p \in Callers, n \in Names, s \in Sizes, e \in {NoErr, EACCES} :
          AttachOpen(p, n, s, e)
    \/ \E p \in Callers, f \in BOOLEAN : AttachMap(p, f)
    \/ \E p \in Callers, n \in Names : destroy_memory_block(p, n)
    \/ \E p \in Callers : Dtor(p)

RegionNext == RegionStep /\ UNCHANGED <<writerVars, readerVars, procVars>>

RegionSpec == Init /\ [][RegionNext]_vars

\* ---------------------------------------------------------------- HandleSpec
\* the region manager without operating-system failures, with the address of
\* each mapping and the pointers the callers keep: the creating program
\* creates, stores, destroys and exits, the attaching programs attach and
\* detach

\* the mmap of a create; the kernel places the mapping at a free address
HandleCreateMap(p, a) ==
    /\ CreateMap(p, FALSE)
    /\ addr' = [addr EXCEPT ![p] = a]
    /\ UNCHANGED block

\* the mmap of an attach; the kernel places the mapping at a free address
HandleAttachMap(p, a) ==
    /\ AttachMap(p, FALSE)
    /\ addr' = [addr EXCEPT ![p] = a]
    /\ UNCHANGED block

\* ~SharedMemory: the mapping at raw_memory_ is gone
HandleDtor(p) ==
    /\ Dtor(p)
    /\ addr' = [addr EXCEPT ![p] = 0]
    /\ UNCHANGED block

\* munmap(block, size) != -1: munmap removes whatever mapping of the
\* process lies at b and also succeeds when none does
detach_from_memory_block(p, b) ==
    /\ pc[p] = "idle"
    /\ b # 0
    /\ IF addr[p] = b
       THEN /\ raw_memory_' = [raw_memory_ EXCEPT ![p] = NoSeg]
            /\ mapSize' = [mapSize EXCEPT ![p] = 0]
            /\ addr' = [addr EXCEPT ![p] = 0]
       ELSE UNCHANGED <<raw_memory_, mapSize, addr>>
    /\ outcome' = [outcome EXCEPT ![p] = DETACHED]
    /\ UNCHANGED <<ns, segs, nsegs, pc, fd, owner_, filename_, reqSize, errno_>>

\* the caller detaches the pointer its last create or attach returned
DetachHandle(p) ==
    /\ addr[p] # 0
    /\ detach_from_memory_block(p, addr[p])
    /\ block' = [block EXCEPT ![p] = [ptr |-> addr[p], calls |-> 1]]

\* the caller detaches once more a pointer it has already detached
DetachAgain(p) ==
    /\ block[p].ptr # 0
    /\ detach_from_memory_block(p, block[p].ptr)
    /\ block' = [block EXCEPT ![p].calls = 2]

\* Ctrl+C while the creating program is in its while (true) loop: it has
\* installed no handler, SIGINT ends it on the spot, its mapping goes with
\* it and no destructor runs
DemoInterrupt(p) ==
    /\ pc[p] = "idle"
    /\ raw_memory_[p] # NoSeg
    /\ owner_[p]
    /\ segs[raw_memory_[p]].rec.price # 0
    /\ raw_memory_' = [raw_memory_ EXCEPT ![p] = NoSeg]
    /\ mapSize' = [mapSize EXCEPT ![p] = 0]
    /\ addr' = [addr EXCEPT ![p] = 0]
    /\ outcome' = [outcome EXCEPT ![p] = KILLED]
    /\ UNCHANGED <<ns, segs, nsegs, pc, fd, owner_, filename_, reqSize, errno_,
                   block>>

HandleStep ==
    \/ \E n \in Names :
          CreateOpen(Writer, n, SizeofTradingData, NoErr) /\ UNCHANGED <<addr, block>>
    \/ CreateTruncate(Writer, FALSE) /\ UNCHANGED <<addr, block>>
    \/ \E a \in Addrs : HandleCreateMap(Writer, a)
    \/ CtorInit(Writer) /\ UNCHANGED <<addr, block>>
    \/ DemoStore(Writer) /\ UNCHANGED <<addr, block>>
    \/ DemoInterrupt(Writer)
    \/ \E n \in Names :
          destroy_memory_block(Writer, n) /\ UNCHANGED <<addr, block>>
    \/ HandleDtor(Writer)
    \/ \E p \in Consumers, n \in Names :
          AttachOpen(p, n, SizeofTradingData, NoErr) /\ UNCHANGED <<addr, block>>
    \/ \E p \in Consumers, a \in Addrs : HandleAttachMap(p, a)
    \/ \E p \in Consumers : DetachHandle(p)
    \/ \E p \in Consumers : DetachAgain(p)

HandleNext ==
    /\ HandleStep
    /\ UNCHANGED <<writerVars, readerVars, childVars, launcherVars>>

HandleSpec == Init /\ [][HandleNext]_vars

\* ================================================== the producer, main.cpp

\* the record in the memory process p has mapped
Mem(p) == segs[raw_memory_[p]].rec

\* cleanup_shared_memory(): destroy_memory_block("/trading_data")
MainCleanup ==
    /\ wpc = "cleanup"
    /\ destroy_memory_block(Writer, ShmName)
    /\ wpc' = "create"
    /\ UNCHANGED <<running, tick, now, current_price, current_volume,
                   timestamp, published, readerVars, procVars>>

\* SharedMemory<TradingData> trading_shm("/trading_data", true): shm_open;
\* an exception leaves main through the catch block with return 1
MainCreateOpen(err) ==
    /\ wpc = "create"
    /\ CreateOpen(Writer, ShmName, SizeofTradingData, err)
    /\ wpc' = IF pc'[Writer] = "ftruncate" THEN "creating" ELSE "exit1"
    /\ UNCHANGED <<running, tick, now, current_price, current_volume,
                   timestamp, published, readerVars, procVars>>

MainCreateTruncate(fail) ==
    /\ wpc = "creating"
    /\ CreateTruncate(Writer, fail)
    /\ wpc' = IF fail THEN "exit1" ELSE "creating"
    /\ UNCHANGED <<running, tick, now, current_price, current_volume,
                   timestamp, published, readerVars, procVars>>

MainCreateMap(fail) ==
    /\ wpc = "creating"
    /\ CreateMap(Writer, fail)
    /\ wpc' = IF fail THEN "exit1" ELSE "creating"
    /\ UNCHANGED <<running, tick, now, current_price, current_volume,
                   timestamp, published, readerVars, procVars>>

MainCtorInit ==
    /\ wpc = "creating"
    /\ CtorInit(Writer)
    /\ wpc' = "loop"
    /\ UNCHANGED <<running, tick, now, current_price, current_volume,
                   timestamp, published, readerVars, procVars>>

\* while (running): leave the loop, or draw the values of this tick
LoopHead(p, v, t) ==
    /\ wpc = "loop"
    /\ IF ~running
       THEN /\ wpc' = "return0"
            /\ UNCHANGED <<now, current_price, current_volume, timestamp,
                           published>>
       ELSE /\ tick < MaxPublish
            /\ t \in {now, now + 1}
            /\ now' = t
            /\ current_price' = p
            /\ current_volume' = v
            /\ timestamp' = t
            /\ published' = published \cup
                   {[price |-> p, timestamp |-> t, volume |-> v, valid |-> TRUE]}
            /\ wpc' = "st_price"
    /\ UNCHANGED <<running, tick, regionVars, readerVars, procVars>>

\* one atomic store into the mapped record
Store(field, value) ==
    segs' = [segs EXCEPT ![raw_memory_[Writer]].rec[field] = value]

\* a publish that raises the validity flag with its first store
StorePrice_ValidFirst ==
    /\ wpc = "st_price"
    /\ segs' = [segs EXCEPT ![raw_memory_[Writer]].rec.price = current_price,
                            ![raw_memory_[Writer]].rec.valid = TRUE]
    /\ wpc' = "st_volume"
    /\ UNCHANGED <<ns, nsegs, pc, fd, raw_memory_, mapSize, owner_, filename_,
                   reqSize, outcome, errno_, running, tick, now, current_price,
                   current_volume, timestamp, published, readerVars, procVars>>

\* shared_data->price.store(current_price)
StorePrice ==
    /\ wpc = "st_price"
    /\ Store("price", current_price)
    /\ wpc' = "st_volume"
    /\ UNCHANGED <<ns, nsegs, pc, fd, raw_memory_, mapSize, owner_, filename_,
                   reqSize, outcome, errno_, running, tick, now, current_price,
                   current_volume, timestamp, published, readerVars, procVars>>

\* a store that waits until no consumer is in the middle of a copy
StoreVolume_WaitsForReaders ==
    /\ wpc = "st_volume"
    /\ \A r \in Readers : rpc[r] # "copy"
    /\ Store("volume", current_volume)
    /\ wpc' = "st_timestamp"
    /\ UNCHANGED <<ns, nsegs, pc, fd, raw_memory_, mapSize, owner_, filename_,
                   reqSize, outcome, errno_, running, tick, now, current_price,
                   current_volume, timestamp, published, readerVars, procVars>>

\* shared_data->volume.store(current_volume)
StoreVolume ==
    /\ wpc = "st_volume"
    /\ Store("volume", current_volume)
    /\ wpc' = "st_timestamp"
    /\ UNCHANGED <<ns, nsegs, pc, fd, raw_memory_, mapSize, owner_, filename_,
                   reqSize, outcome, errno_, running, tick, now, current_price,
                   current_volume, timestamp, published, readerVars, procVars>>

\* shared_data->timestamp.store(timestamp)
StoreTimestamp ==
    /\ wpc = "st_timestamp"
    /\ Store("timestamp", timestamp)
    /\ wpc' = "st_valid"
    /\ UNCHANGED <<ns, nsegs, pc, fd, raw_memory_, mapSize, owner_, filename_,
                   reqSize, outcome, errno_, running, tick, now, current_price,
                   current_volume, timestamp, published, readerVars, procVars>>

\* shared_data->valid.store(true); the rest of the iteration up to tick++
StoreValid ==
    /\ wpc = "st_valid"
    /\ Store("valid", TRUE)
    /\ tick' = tick + 1
    /\ wpc' = "loop"
    /\ UNCHANGED <<ns, nsegs, pc, fd, raw_memory_, mapSize, owner_, filename_,
                   reqSize, outcome, errno_, running, now, current_price,
                   current_volume, timestamp, published, readerVars, procVars>>

WriterStore == StorePrice \/ StoreVolume \/ StoreTimestamp \/ StoreValid

\* return 0: trading_shm goes out of scope, ~SharedMemory
MainReturn ==
    /\ wpc = "return0"
    /\ Dtor(Writer)
    /\ wpc' = "exited"
    /\ UNCHANGED <<running, tick, now, current_price, current_volume,
                   timestamp, published, readerVars, procVars>>

\* a handler that takes every nonzero python_pid for a child
SignalHandler_NonZeroPid ==
    /\ wpc \notin {"exited", "exit1"}
    /\ hpc = "none"
    /\ running' = FALSE
    /\ IF python_pid # 0
       THEN /\ child' = IF child \in {"forked", "running"} THEN "signalled"
                                                            ELSE child
            /\ hpc' = "waitpid"
       ELSE UNCHANGED <<child, hpc>>
    /\ UNCHANGED <<regionVars, wpc, tick, now, current_price, current_volume,
                   timestamp, published, readerVars, python_pid, pid, exitst,
                   out, waited, launcherVars, addr, block>>

\* signal_handler: running = false; if (python_pid > 0) kill(python_pid,
\* SIGTERM) and enter waitpid(python_pid, &status, 0). The handler runs on
\* the thread of main, which continues when the handler has returned. It
\* stays installed, so every further SIGINT or SIGTERM runs it again.
SignalHandler ==
    /\ wpc \notin {"exited", "exit1"}
    /\ hpc = "none"
    /\ running' = FALSE
    /\ IF python_pid > 0
       THEN /\ child' = IF child \in {"forked", "running"} THEN "signalled"
                                                            ELSE child
            /\ hpc' = "waitpid"
       ELSE UNCHANGED <<child, hpc>>
    /\ UNCHANGED <<regionVars, wpc, tick, now, current_price, current_volume,
                   timestamp, published, readerVars, python_pid, pid, exitst,
                   out, waited, launcherVars, addr, block>>

\* ================================== the consumer of the guide (section 5.3)
\* the members in the order memory_map.read(STRUCT_SIZE) copies them
FieldOrder == <<"price", "timestamp", "volume", "valid">>

\* connect(): os.open of the object; fails when the name does not exist
ReaderConnectOpen(r) ==
    /\ rpc[r] = "idle"
    /\ AttachOpen(r, ShmName, SizeofTradingData, NoErr)
    /\ rbuf' = [rbuf EXCEPT ![r] = InitRecord]
    /\ rloaded' = [rloaded EXCEPT ![r] = {}]
    /\ UNCHANGED <<writerVars, procVars, rpc, seq1, seq2, attempts, snap>>

\* connect(): mmap.mmap(shm_fd, STRUCT_SIZE, MAP_SHARED, PROT_READ)
ReaderConnectMap(r) ==
    /\ AttachMap(r, FALSE)
    /\ UNCHANGED <<writerVars, readerVars, procVars>>

\* read_trading_data(): seek(0); read(STRUCT_SIZE) copies the record out
\* member by member while the producer keeps storing; a copy from an
\* object of length 0 raises SIGBUS and ends the consumer
ReaderLoad(r) ==
    /\ rpc[r] \in {"idle", "copy"}
    /\ pc[r] = "idle"
    /\ raw_memory_[r] # NoSeg
    /\ LET done == IF rpc[r] = "idle" THEN {} ELSE rloaded[r]
           f == FieldOrder[Cardinality(done) + 1]
           buf == IF rpc[r] = "idle" THEN InitRecord ELSE rbuf[r]
       IN  /\ Cardinality(done) < Len(FieldOrder)
           /\ IF segs[raw_memory_[r]].size = 0
              THEN /\ rpc' = [rpc EXCEPT ![r] = "sigbus"]
                   /\ raw_memory_' = [raw_memory_ EXCEPT ![r] = NoSeg]
                   /\ mapSize' = [mapSize EXCEPT ![r] = 0]
                   /\ rbuf' = [rbuf EXCEPT ![r] = InitRecord]
                   /\ rloaded' = [rloaded EXCEPT ![r] = {}]
              ELSE /\ rpc' = [rpc EXCEPT ![r] = "copy"]
                   /\ rbuf' = [rbuf EXCEPT ![r] = [buf EXCEPT ![f] = Mem(r)[f]]]
                   /\ rloaded' = [rloaded EXCEPT ![r] = done \cup {f}]
                   /\ UNCHANGED <<raw_memory_, mapSize>>
    /\ UNCHANGED <<ns, segs, nsegs, pc, fd, owner_, filename_, reqSize,
                   outcome, errno_, writerVars, procVars, seq1, seq2, attempts, snap>>

\* struct.unpack and return TradingData(...): rbuf is what the caller gets
ReaderReturn(r) ==
    /\ rpc[r] = "copy"
    /\ rloaded[r] = Fields
    /\ rpc' = [rpc EXCEPT ![r] = "idle"]
    /\ UNCHANGED <<regionVars, writerVars, procVars, rbuf, rloaded, seq1, seq2,
                   attempts, snap>>

\* the record the consumer's last read_trading_data() returned
Returned(r) == rpc[r] = "idle" /\ rloaded[r] = Fields

\* the consumer unmaps
ReaderClose(r) ==
    /\ rpc[r] = "idle"
    /\ Dtor(r)
    /\ UNCHANGED <<writerVars, readerVars, procVars>>

\* ================================ main.cpp and its child process, LaunchSpec
\* the pid fork() returns to the parent
ChildPid == 4242
\* the lines main.cpp prints about the child
MSG_LAUNCHED == "Launched Python process with PID: "
MSG_CONTINUE == "Failed to launch Python process, continuing without it..."
MSG_READY == "=== Trading System Ready ==="
MSG_BRIDGE == "Python bridge process launched"

\* launch_python_process(): pid = fork(); in the parent either the
\* "Launched" line and return pid, or perror and return -1
LaunchFork(ok) ==
    /\ wpc = "launch"
    /\ hpc = "none"
    /\ IF ok
       THEN /\ child' = "forked"
            /\ pid' = ChildPid
            /\ out' = out \cup {MSG_LAUNCHED}
       ELSE /\ pid' = -1
            /\ UNCHANGED <<child, out>>
    /\ wpc' = "assign"
    /\ UNCHANGED <<regionVars, running, tick, now, current_price,
                   current_volume, timestamp, published, readerVars,
                   python_pid, exitst, hpc, waited, launcherVars, addr, block>>

\* python_pid = launch_python_process(); the check for -1 and the status
\* lines that main prints in either case
LaunchAssign ==
    /\ wpc = "assign"
    /\ hpc = "none"
    /\ python_pid' = pid
    /\ out' = out \cup (IF pid = -1 THEN {MSG_CONTINUE} ELSE {})
                  \cup {MSG_READY, MSG_BRIDGE}
    /\ wpc' = "loop"
    /\ UNCHANGED <<regionVars, running, tick, now, current_price,
                   current_volume, timestamp, published, readerVars,
                   pid, child, exitst, hpc, waited, launcherVars, addr, block>>

\* the child: execl("/usr/bin/python3", ...); when it returns, perror and
\* exit(1)
ChildExec(ok) ==
    /\ child = "forked"
    /\ IF ok
       THEN child' = "running" /\ UNCHANGED exitst
       ELSE child' = "zombie" /\ exitst' = "execfail"
    /\ UNCHANGED <<regionVars, writerVars, readerVars, python_pid, pid, hpc,
                   out, waited, launcherVars, addr, block>>

\* the child ends by itself, with exit code 0 or not
ChildExit(how) ==
    /\ child = "running"
    /\ child' = "zombie"
    /\ exitst' = how
    /\ UNCHANGED <<regionVars, writerVars, readerVars, python_pid, pid, hpc,
                   out, waited, launcherVars, addr, block>>

\* the child gets SIGTERM: it dies of it, or handles or ignores it
ChildOnSigterm(obeys) ==
    /\ child = "signalled"
    /\ IF obeys
       THEN child' = "zombie" /\ exitst' = "signal"
       ELSE child' = "running" /\ UNCHANGED exitst
    /\ UNCHANGED <<regionVars, writerVars, readerVars, python_pid, pid, hpc,
                   out, waited, launcherVars, addr, block>>

\* signal_handler: waitpid(python_pid, &status, 0) returns once the child
\* has ended, and reaps it; the handler returns
SigWait ==
    /\ hpc = "waitpid"
    /\ child \in {"zombie", "reaped", "none"}
    /\ child' = IF child = "zombie" THEN "reaped" ELSE child
    /\ hpc' = "none"
    /\ UNCHANGED <<regionVars, writerVars, readerVars, python_pid, pid, exitst,
                   out, waited, launcherVars, addr, block>>

\* a second passes while waitpid blocks
SecondPasses ==
    /\ hpc = "waitpid"
    /\ child \notin {"zombie", "reaped", "none"}
    /\ waited < MaxWait
    /\ waited' = waited + 1
    /\ UNCHANGED <<regionVars, writerVars, readerVars, python_pid, pid, child,
                   exitst, hpc, out, launcherVars, addr, block>>

\* main.cpp at line 60: the segment is created and mapped
LaunchInit ==
    /\ ns = [n \in Names |-> 1]
    /\ segs = [s \in SegIds |->
                  IF s = 1 THEN [size |-> SizeofTradingData, rec |-> InitRecord,
                                 creator |-> Writer]
                           ELSE ZeroSegment]
    /\ nsegs = 1
    /\ pc = [p \in Procs |-> "idle"]
    /\ fd = [p \in Procs |-> NoSeg]
    /\ raw_memory_ = [p \in Procs |-> IF p = Writer THEN 1 ELSE NoSeg]
    /\ mapSize = [p \in Procs |-> IF p = Writer THEN SizeofTradingData ELSE 0]
    /\ owner_ = [p \in Procs |-> p = Writer]
    /\ filename_ = [p \in Procs |-> ShmName]
    /\ reqSize = [p \in Procs |-> IF p = Writer THEN SizeofTradingData ELSE 0]
    /\ outcome = [p \in Procs |-> IF p = Writer THEN OK ELSE NoOutcome]
    /\ errno_ = [p \in Procs |-> NoErr]
    /\ wpc = "launch"
    /\ running = TRUE
    /\ tick = 0
    /\ now = 1
    /\ current_price = 0
    /\ current_volume = 0
    /\ timestamp = 0
    /\ published = {}
    /\ rpc = [r \in Readers |-> "idle"]
    /\ rbuf = [r \in Readers |-> InitRecord]
    /\ rloaded = [r \in Readers |-> {}]
    /\ seq1 = [r \in Readers |-> 0]
    /\ seq2 = [r \in Readers |-> 0]
    /\ attempts = [r \in Readers |-> 0]
    /\ snap = [r \in Readers |-> NoSnap]
    /\ ProcInit

\* main does not run while the handler is on its stack
LaunchNext ==
    \/ \E ok \in BOOLEAN : LaunchFork(ok)
    \/ LaunchAssign
    \/ \E ok \in BOOLEAN : ChildExec(ok)
    \/ \E how \in {"exit0", "exit1"} : ChildExit(how)
    \/ \E obeys \in BOOLEAN : ChildOnSigterm(obeys)
    \/ SignalHandler
    \/ SigWait
    \/ SecondPasses
    \/ hpc = "none" /\ \E p \in Prices, v \in Volumes, t \in 1..(MaxPublish + 1) :
                           LoopHead(p, v, t)
    \/ hpc = "none" /\ StorePrice
    \/ hpc = "none" /\ StoreVolume
    \/ hpc = "none" /\ StoreTimestamp
    \/ hpc = "none" /\ StoreValid
    \/ hpc = "none" /\ MainReturn

LaunchSpec == LaunchInit /\ [][LaunchNext]_vars

\* ============================================ PythonLauncher, LauncherSpec
\* the calls are made by the owning control loop, one after the other; the
\* child ends when it chooses to

\* handle_process_exit(exit_code): the state and the callback that the way
\* the child ended asks for
ExitState(how) == IF how \in {"exit0", "stopped"} THEN "TERMINATED" ELSE "CRASHED"
ExitCallback(how) ==
    IF how \in {"exit0", "stopped"} THEN "on_terminated" ELSE "on_crashed"

\* the variables a PythonLauncher call leaves alone
outsideLauncher == <<regionVars, writerVars, readerVars, python_pid, pid, hpc,
                     out, waited, auto_restart, addr, block>>

\* start(): NOT_STARTED --start success--> RUNNING with on_started,
\* NOT_STARTED --start failure--> FAILED_TO_START; a launcher that has been
\* started before is not started a second time by start()
StartEffect(ok) ==
    IF state_ # "NOT_STARTED"
    THEN /\ ret' = "start refused"
         /\ UNCHANGED <<state_, process_pid_, spawned, callbacks, child,
                        exitst>>
    ELSE /\ spawned < MaxSpawn
         /\ spawned' = spawned + 1
         /\ exitst' = "-"
         /\ IF ok
            THEN /\ child' = "running"
                 /\ process_pid_' = ChildPid + spawned
                 /\ state_' = "RUNNING"
                 /\ callbacks' = <<"on_started">>
                 /\ ret' = "started"
            ELSE /\ child' = "none"
                 /\ process_pid_' = -1
                 /\ state_' = "FAILED_TO_START"
                 /\ callbacks' = <<>>
                 /\ ret' = "start failed"

\* start() called by the owning control loop
start(ok) ==
    /\ spc = "idle"
    /\ StartEffect(ok)
    /\ UNCHANGED <<restart_count_, spc, outsideLauncher>>

\* an update that takes every poll of an ended child for a new exit
update_PollsAgain ==
    /\ spc = "idle"
    /\ IF child \in {"zombie", "reaped"}
       THEN /\ child' = "reaped"
            /\ state_' = ExitState(exitst)
            /\ process_pid_' = -1
            /\ callbacks' = Append(callbacks, ExitCallback(exitst))
            /\ ret' = "exit seen"
            /\ UNCHANGED exitst
       ELSE /\ ret' = "nothing seen"
            /\ UNCHANGED <<state_, process_pid_, callbacks, child, exitst>>
    /\ UNCHANGED <<restart_count_, spawned, spc, outsideLauncher>>

\* a launcher that restarts a crashed child whatever its Config says
AutoRestarts_IgnoresConfig == TRUE

\* a crash is followed by a restart only under Config::auto_restart
AutoRestarts == auto_restart

\* update(): non-blocking wait for the running child; on its exit reap it,
\* set the state and invoke on_terminated or on_crashed; after a crash, if
\* auto_restart is configured, restart(): refused and reported once
\* max_restart_attempts restarts have been made, else counted and followed
\* by the start
UpdateEffect ==
    IF state_ = "RUNNING" /\ child = "zombie"
    THEN /\ child' = "reaped"
         /\ state_' = ExitState(exitst)
         /\ process_pid_' = -1
         /\ callbacks' = Append(callbacks, ExitCallback(exitst))
         /\ UNCHANGED exitst
         /\ IF ExitState(exitst) = "CRASHED" /\ AutoRestarts
            THEN IF restart_count_ >= max_restart_attempts
                 THEN /\ ret' = "restart limit exceeded"
                      /\ UNCHANGED <<restart_count_, spc>>
                 ELSE /\ spawned < MaxSpawn
                      /\ restart_count_' = restart_count_ + 1
                      /\ spc' = "restart_start"
                      /\ ret' = "restarting"
            ELSE /\ ret' = "exit seen"
                 /\ UNCHANGED <<restart_count_, spc>>
    ELSE /\ ret' = "nothing seen"
         /\ UNCHANGED <<state_, process_pid_, callbacks, child, exitst,
                        restart_count_, spc>>

\* update() called by the owning control loop
update ==
    /\ spc = "idle"
    /\ UpdateEffect
    /\ UNCHANGED <<spawned, outsideLauncher>>

\* what stop does to the launcher and its child: a child that has already
\* ended is reaped and handled as in update; a running child gets the
\* graceful request and, if it is still there after shutdown_timeout and
\* force_kill is set, the kill; without force_kill the stop gives up
StopEffect(force_kill, intime) ==
    IF state_ # "RUNNING"
    THEN /\ ret' = "not running"
         /\ UNCHANGED <<state_, process_pid_, callbacks, child, exitst>>
    ELSE IF child = "zombie"
    THEN /\ child' = "reaped"
         /\ state_' = ExitState(exitst)
         /\ process_pid_' = -1
         /\ callbacks' = Append(callbacks, ExitCallback(exitst))
         /\ ret' = "stopped"
         /\ UNCHANGED exitst
    ELSE IF intime \/ force_kill
    THEN /\ child' = "reaped"
         /\ exitst' = "stopped"
         /\ state_' = "TERMINATED"
         /\ process_pid_' = -1
         /\ callbacks' = Append(callbacks, "on_terminated")
         /\ ret' = "stopped"
    ELSE /\ ret' = "stop timed out"
         /\ UNCHANGED <<state_, process_pid_, callbacks, child, exitst>>

\* a stop that forgets the launcher's history
stop_Resets(force_kill, intime) ==
    /\ spc = "idle"
    /\ IF state_ = "RUNNING"
       THEN /\ child' = "reaped"
            /\ exitst' = "stopped"
            /\ state_' = "NOT_STARTED"
            /\ process_pid_' = -1
            /\ callbacks' = Append(callbacks, "on_terminated")
            /\ ret' = "stopped"
       ELSE /\ ret' = "not running"
            /\ UNCHANGED <<state_, process_pid_, callbacks, child, exitst>>
    /\ UNCHANGED <<restart_count_, spawned, spc, outsideLauncher>>

\* stop(force_kill)
stop(force_kill, intime) ==
    /\ spc = "idle"
    /\ StopEffect(force_kill, intime)
    /\ UNCHANGED <<restart_count_, spawned, spc, outsideLauncher>>

\* a restart that refuses one call too late
restart_OffByOne ==
    /\ spc = "idle"
    /\ IF restart_count_ > max_restart_attempts
       THEN /\ ret' = "restart refused"
            /\ UNCHANGED <<state_, process_pid_, restart_count_, spc,
                           callbacks, child, exitst>>
       ELSE IF state_ \in {"NOT_STARTED", "FAILED_TO_START"}
       THEN /\ ret' = "nothing to restart"
            /\ UNCHANGED <<state_, process_pid_, restart_count_, spc,
                           callbacks, child, exitst>>
       ELSE /\ spawned < MaxSpawn
            /\ StopEffect(TRUE, TRUE)
            /\ restart_count_' = restart_count_ + 1
            /\ spc' = "restart_start"
    /\ UNCHANGED <<spawned, outsideLauncher>>

\* restart(): refused once max_restart_attempts restarts have been made;
\* TERMINATED/CRASHED --restart--> RUNNING, and a running child is stopped
\* first: stop, count the restart, and go on to the start
restart ==
    /\ spc = "idle"
    /\ IF restart_count_ >= max_restart_attempts
       THEN /\ ret' = "restart refused"
            /\ UNCHANGED <<state_, process_pid_, restart_count_, spc,
                           callbacks, child, exitst>>
       ELSE IF state_ \in {"NOT_STARTED", "FAILED_TO_START"}
       THEN /\ ret' = "nothing to restart"
            /\ UNCHANGED <<state_, process_pid_, restart_count_, spc,
                           callbacks, child, exitst>>
       ELSE /\ spawned < MaxSpawn
            /\ StopEffect(TRUE, TRUE)
            /\ restart_count_' = restart_count_ + 1
            /\ spc' = "restart_start"
    /\ UNCHANGED <<spawned, outsideLauncher>>

\* restart(): the start that follows the stop; it spawns as start() does
\* and, when the spawn fails, leaves FAILED_TO_START as start() does
restart_start(ok) ==
    /\ spc = "restart_start"
    /\ spawned' = spawned + 1
    /\ exitst' = "-"
    /\ spc' = "idle"
    /\ IF ok
       THEN /\ child' = "running"
            /\ process_pid_' = ChildPid + spawned
            /\ state_' = "RUNNING"
            /\ callbacks' = <<"on_started">>
            /\ ret' = "restarted"
       ELSE /\ child' = "none"
            /\ process_pid_' = -1
            /\ state_' = "FAILED_TO_START"
            /\ callbacks' = <<>>
            /\ ret' = "restart failed"
    /\ UNCHANGED <<restart_count_, outsideLauncher>>

LauncherNext ==
    \/ \E ok \in BOOLEAN : start(ok)
    \/ update
    \/ \E force_kill \in BOOLEAN, intime \in BOOLEAN : stop(force_kill, intime)
    \/ restart
    \/ \E ok \in BOOLEAN : restart_start(ok)
    \/ \E how \in {"exit0", "exit1", "signal"} : ChildExit(how)

LauncherSpec == Init /\ [][LauncherNext]_vars

\* ------------------------------------------------------------- AutoSpec
\* a launcher constructed from either Config, auto_restart set or not
AutoInit == RegionInit /\ ProgInit /\ \E auto \in BOOLEAN : ProcInitWith(auto)

AutoSpec == AutoInit /\ [][LauncherNext]_vars

\* ---------------------------------------------------------------------- Spec
Next ==
    \/ MainCleanup
    \/ \E e \in {NoErr, EACCES} : MainCreateOpen(e)
    \/ \E f \in BOOLEAN : MainCreateTruncate(f)
    \/ \E f \in BOOLEAN : MainCreateMap(f)
    \/ MainCtorInit
    \/ \E p \in Prices, v \in Volumes, t \in 1..(MaxPublish + 1) : LoopHead(p, v, t)
    \/ StorePrice
    \/ StoreVolume
    \/ StoreTimestamp
    \/ StoreValid
    \/ MainReturn
    \/ SignalHandler
    \/ \E r \in Consumers : ReaderConnectOpen(r)
    \/ \E r \in Consumers : ReaderConnectMap(r)
    \/ \E r \in Consumers : ReaderLoad(r)
    \/ \E r \in Consumers : ReaderReturn(r)
    \/ \E r \in Consumers : ReaderClose(r)

Spec == Init /\ [][Next]_vars

\* the producer runs on its own thread: its stores are taken when enabled
FairSpec == Spec /\ WF_vars(WriterStore)

\* ========================= the sequence-number protocol of the guide, 10.4
Min(a, b) == IF a < b THEN a ELSE b

\* one atomic store / fetch_add on the record the writer has mapped
SeqBump == 
    segs' = [segs EXCEPT ![raw_memory_[Writer]].rec.sequence = @ + 1]

\* Writer: data->sequence.fetch_add(1), "increment before", with new_price
\* and new_time of this update (the clock has advanced since the last one)
SeqWriterBegin(p) ==
    /\ wpc = "loop"
    /\ tick < MaxPublish
    /\ now' = now + 1
    /\ current_price' = p
    /\ timestamp' = now'
    /\ UNCHANGED published
    /\ SeqBump
    /\ wpc' = "sq_price"
    /\ UNCHANGED <<ns, nsegs, pc, fd, raw_memory_, mapSize, owner_, filename_,
                   reqSize, outcome, errno_, running, tick, current_volume,
                   readerVars, procVars>>

\* Writer: data->price.store(new_price)
SeqStorePrice ==
    /\ wpc = "sq_price"
    /\ Store("price", current_price)
    /\ wpc' = "sq_timestamp"
    /\ UNCHANGED <<ns, nsegs, pc, fd, raw_memory_, mapSize, owner_, filename_,
                   reqSize, outcome, errno_, running, tick, now, current_price,
                   current_volume, timestamp, published, readerVars, procVars>>

\* Writer: data->timestamp.store(new_time)
SeqStoreTimestamp ==
    /\ wpc = "sq_timestamp"
    /\ Store("timestamp", timestamp)
    /\ wpc' = "sq_end"
    /\ UNCHANGED <<ns, nsegs, pc, fd, raw_memory_, mapSize, owner_, filename_,
                   reqSize, outcome, errno_, running, tick, now, current_price,
                   current_volume, timestamp, published, readerVars, procVars>>

\* a second increment that takes the counter back instead of forward
SeqWriterEnd_Reset ==
    /\ wpc = "sq_end"
    /\ segs' = [segs EXCEPT ![raw_memory_[Writer]].rec.sequence = @ - 1]
    /\ tick' = tick + 1
    /\ wpc' = "loop"
    /\ UNCHANGED <<ns, nsegs, pc, fd, raw_memory_, mapSize, owner_, filename_,
                   reqSize, outcome, errno_, running, now, current_price,
                   current_volume, timestamp, published, readerVars, procVars>>

\* Writer: data->sequence.fetch_add(1), "increment after"
SeqWriterEnd ==
    /\ wpc = "sq_end"
    /\ SeqBump
    /\ tick' = tick + 1
    /\ wpc' = "loop"
    /\ UNCHANGED <<ns, nsegs, pc, fd, raw_memory_, mapSize, owner_, filename_,
                   reqSize, outcome, errno_, running, now, current_price,
                   current_volume, timestamp, published, readerVars, procVars>>

\* Reader: seq1 = data->sequence.load(), first statement of the do-body;
\* seq2 is assigned again before it is next read
SeqLoad1(r) ==
    /\ rpc[r] \in {"idle", "retry"}
    /\ seq1' = [seq1 EXCEPT ![r] = Mem(r).sequence]
    /\ seq2' = [seq2 EXCEPT ![r] = 0]
    /\ attempts' = [attempts EXCEPT ![r] = IF rpc[r] = "idle" THEN 0 ELSE @]
    /\ rpc' = [rpc EXCEPT ![r] = "sq_ld_price"]
    /\ UNCHANGED <<regionVars, writerVars, procVars, rbuf, rloaded, snap>>

\* Reader: double price = data->price.load()
SeqLoadPrice(r) ==
    /\ rpc[r] = "sq_ld_price"
    /\ rbuf' = [rbuf EXCEPT ![r].price = Mem(r).price]
    /\ rpc' = [rpc EXCEPT ![r] = "sq_ld_time"]
    /\ UNCHANGED <<regionVars, writerVars, procVars, rloaded, seq1, seq2, attempts, snap>>

\* Reader: uint64_t time = data->timestamp.load()
SeqLoadTime(r) ==
    /\ rpc[r] = "sq_ld_time"
    /\ rbuf' = [rbuf EXCEPT ![r].timestamp = Mem(r).timestamp]
    /\ rpc' = [rpc EXCEPT ![r] = "sq_ld_seq2"]
    /\ UNCHANGED <<regionVars, writerVars, procVars, rloaded, seq1, seq2, attempts, snap>>

\* a loop condition that only compares the two loads
SeqLoad2_NoOddCheck(r) ==
    /\ rpc[r] = "sq_ld_seq2"
    /\ seq2' = [seq2 EXCEPT ![r] = Mem(r).sequence]
    /\ IF seq1[r] # seq2'[r]
       THEN /\ attempts' = [attempts EXCEPT ![r] = Min(@ + 1, MaxAttempts)]
            /\ rpc' = [rpc EXCEPT ![r] = "retry"]
            /\ UNCHANGED snap
       ELSE /\ snap' = [snap EXCEPT ![r] = [rbuf[r] EXCEPT !.sequence = seq1[r]]]
            /\ rpc' = [rpc EXCEPT ![r] = "idle"]
            /\ UNCHANGED attempts
    /\ rbuf' = [rbuf EXCEPT ![r] = InitRecord]
    /\ UNCHANGED <<regionVars, writerVars, procVars, rloaded, seq1>>

\* Reader: seq2 = data->sequence.load() and the loop condition
\* while (seq1 != seq2 || seq1 % 2 == 1): go round again, or leave the loop
\* with the price and time of this pass (snap); price and time are locals of
\* the do-body and end with it
SeqLoad2(r) ==
    /\ rpc[r] = "sq_ld_seq2"
    /\ seq2' = [seq2 EXCEPT ![r] = Mem(r).sequence]
    /\ IF seq1[r] # seq2'[r] \/ seq1[r] % 2 = 1
       THEN /\ attempts' = [attempts EXCEPT ![r] = Min(@ + 1, MaxAttempts)]
            /\ rpc' = [rpc EXCEPT ![r] = "retry"]
            /\ UNCHANGED snap
       ELSE /\ snap' = [snap EXCEPT ![r] = [rbuf[r] EXCEPT !.sequence = seq1[r]]]
            /\ rpc' = [rpc EXCEPT ![r] = "idle"]
            /\ UNCHANGED attempts
    /\ rbuf' = [rbuf EXCEPT ![r] = InitRecord]
    /\ UNCHANGED <<regionVars, writerVars, procVars, rloaded, seq1>>

\* the segment created with the 32-byte record and mapped by every process
SeqInit ==
    /\ ns = [n \in Names |-> 1]
    /\ segs = [s \in SegIds |->
                  IF s = 1 THEN [size |-> SizeofSeqData, rec |-> InitRecord,
                                 creator |-> Writer]
                           ELSE ZeroSegment]
    /\ nsegs = 1
    /\ pc = [p \in Procs |-> "idle"]
    /\ fd = [p \in Procs |-> NoSeg]
    /\ raw_memory_ = [p \in Procs |-> 1]
    /\ mapSize = [p \in Procs |-> SizeofSeqData]
    /\ owner_ = [p \in Procs |-> p = Writer]
    /\ filename_ = [p \in Procs |-> ShmName]
    /\ reqSize = [p \in Procs |-> SizeofSeqData]
    /\ outcome = [p \in Procs |-> OK]
    /\ errno_ = [p \in Procs |-> NoErr]
    /\ wpc = "loop"
    /\ running = TRUE
    /\ tick = 0
    /\ now = 0
    /\ current_price = 0
    /\ current_volume = 0
    /\ timestamp = 0
    /\ published = {}
    /\ rpc = [r \in Readers |-> "idle"]
    /\ rbuf = [r \in Readers |-> InitRecord]
    /\ rloaded = [r \in Readers |-> {}]
    /\ seq1 = [r \in Readers |-> 0]
    /\ seq2 = [r \in Readers |-> 0]
    /\ attempts = [r \in Readers |-> 0]
    /\ snap = [r \in Readers |-> NoSnap]
    /\ ProcInit

SeqNext ==
    \/ \E p \in Prices : SeqWriterBegin(p)
    \/ SeqStorePrice
    \/ SeqStoreTimestamp
    \/ SeqWriterEnd
    \/ \E r \in Readers : SeqLoad1(r)
    \/ \E r \in Readers : SeqLoadPrice(r)
    \/ \E r \in Readers : SeqLoadTime(r)
    \/ \E r \in Readers : SeqLoad2(r)

SeqSpec == SeqInit /\ [][SeqNext]_vars

\* ------------------------------------------------------------ ReadersSpec
\* the sequence-number writer with readers that attach, read and detach

\* SharedMemory<TradingData> shm("/trading_data", false): shm_open
SeqAttachOpen(r) ==
    /\ rpc[r] = "idle"
    /\ AttachOpen(r, ShmName, SizeofSeqData, NoErr)
    /\ UNCHANGED <<writerVars, readerVars, procVars>>

\* process r has the record mapped and is in no region call
Mapped(r) == pc[r] = "idle" /\ raw_memory_[r] # NoSeg

\* the steps of reader r: attach, the loads of an attempt, detach
ReaderStep(r) ==
    \/ SeqAttachOpen(r)
    \/ ReaderConnectMap(r) /\ pc[r] = "attach_mmap"
    \/ Mapped(r) /\ SeqLoad1(r)
    \/ Mapped(r) /\ SeqLoadPrice(r)
    \/ Mapped(r) /\ SeqLoadTime(r)
    \/ Mapped(r) /\ SeqLoad2(r)
    \/ ReaderClose(r)

\* the segment created with the 32-byte record and mapped by its writer
ReadersInit ==
    /\ ns = [n \in Names |-> 1]
    /\ segs = [s \in SegIds |->
                  IF s = 1 THEN [size |-> SizeofSeqData, rec |-> InitRecord,
                                 creator |-> Writer]
                           ELSE ZeroSegment]
    /\ nsegs = 1
    /\ pc = [p \in Procs |-> "idle"]
    /\ fd = [p \in Procs |-> NoSeg]
    /\ raw_memory_ = [p \in Procs |-> IF p = Writer THEN 1 ELSE NoSeg]
    /\ mapSize = [p \in Procs |-> IF p = Writer THEN SizeofSeqData ELSE 0]
    /\ owner_ = [p \in Procs |-> p = Writer]
    /\ filename_ = [p \in Procs |-> ShmName]
    /\ reqSize = [p \in Procs |-> IF p = Writer THEN SizeofSeqData ELSE 0]
    /\ outcome = [p \in Procs |-> IF p = Writer THEN OK ELSE NoOutcome]
    /\ errno_ = [p \in Procs |-> NoErr]
    /\ wpc = "loop"
    /\ running = TRUE
    /\ tick = 0
    /\ now = 0
    /\ current_price = 0
    /\ current_volume = 0
    /\ timestamp = 0
    /\ published = {}
    /\ rpc = [r \in Readers |-> "idle"]
    /\ rbuf = [r \in Readers |-> InitRecord]
    /\ rloaded = [r \in Readers |-> {}]
    /\ seq1 = [r \in Readers |-> 0]
    /\ seq2 = [r \in Readers |-> 0]
    /\ attempts = [r \in Readers |-> 0]
    /\ snap = [r \in Readers |-> NoSnap]
    /\ ProcInit

\* the prices the writer publishes alternate: what the readers do with the
\* segment does not depend on them
ReadersNext ==
    \/ \E p \in Prices : p = (tick % 2) + 1 /\ SeqWriterBegin(p)
    \/ SeqStorePrice
    \/ SeqStoreTimestamp
    \/ SeqWriterEnd
    \/ \E r \in Readers : ReaderStep(r)

ReadersSpec == ReadersInit /\ [][ReadersNext]_vars

\* ===================================================== publish/consume claims
\* the positions of main() at which some member of the new record is stored
\* and the iteration's last store is still to come
MainPublishing == wpc \in {"st_volume", "st_timestamp", "st_valid"}
\* the positions of the guide's writer between its two increments
SeqPublishing == wpc \in {"sq_price", "sq_timestamp", "sq_end"}

\* C1: every record a consumer's read returns is, member for member, the
\* initial record or one record the producer published in one iteration.
C1_NoTornSnapshot ==
    \A r \in Readers :
        Returned(r) => Payload(rbuf[r]) \in published \cup {Payload(InitRecord)}

\* C2: the record's sequence counter is odd exactly while a publish is in
\* progress and even otherwise.
C2_SequenceOddIffPublishing ==
    raw_memory_[Writer] # NoSeg =>
        ((Mem(Writer).sequence % 2 = 1) <=> (MainPublishing \/ SeqPublishing))

\* C3: a pass of the reader loop ends the read only when seq1 is even and
\* equals the second load of the counter, and what is then returned is the
\* price and time of that pass; a pass with odd seq1 or seq1 # seq2 returns
\* nothing and is followed by a new pass starting at the load of seq1.
C3_AcceptOnlyEvenAndEqual ==
    [][\A r \in Readers :
          /\ (rpc[r] = "sq_ld_seq2" /\ rpc'[r] # "sq_ld_seq2") =>
                /\ seq2'[r] = Mem(r).sequence
                /\ IF seq1[r] % 2 = 0 /\ seq1[r] = seq2'[r]
                   THEN /\ rpc'[r] = "idle"
                        /\ snap'[r] = [rbuf[r] EXCEPT !.sequence = seq1[r]]
                   ELSE /\ rpc'[r] = "retry"
                        /\ snap'[r] = snap[r]
          /\ (rpc[r] = "retry" /\ rpc'[r] # "retry") =>
                /\ rpc'[r] = "sq_ld_price"
                /\ seq1'[r] = Mem(r).sequence
                /\ snap'[r] = snap[r]]_vars

\* C3 witness: one reader has been handed the first completed update while
\* another reader's pass, with an even seq1, was rejected because the
\* counter had moved
C3_Witness ==
    \E r1, r2 \in Readers :
        /\ r1 # r2
        /\ snap[r1] # NoSnap /\ snap[r1].sequence = 2
        /\ rpc[r2] = "retry" /\ seq1[r2] % 2 = 0 /\ seq2[r2] # seq1[r2]

\* C4: the sequence counter never decreases, and each reader's successive
\* returned records carry non-decreasing sequence values and update times.
C4_SequenceAndSnapshotsMonotonic ==
    [][/\ segs'[raw_memory_'[Writer]].rec.sequence >= Mem(Writer).sequence
       /\ \A r \in Readers :
             (snap[r] # NoSnap /\ snap'[r] # snap[r]) =>
                 /\ snap'[r].sequence >= snap[r].sequence
                 /\ snap'[r].timestamp >= snap[r].timestamp]_vars

\* C4 witness: a reader that was handed the first update is about to be
\* handed the second one
C4_Witness ==
    \E r \in Readers :
        /\ snap[r] # NoSnap /\ snap[r].sequence = 2
        /\ rpc[r] = "sq_ld_seq2" /\ seq1[r] = 4 /\ Mem(r).sequence = 4

\* C5: a read gives up after a bounded number of rejected passes: the count
\* of rejected passes of one read stays below the limit.
C5_ReadGivesUpWithinBound ==
    \A r \in Readers : attempts[r] < MaxAttempts

C7_InitialUntilFirstPublish ==
    \A r \in Readers :
        /\ tick = 0 => \A f \in rloaded[r] : rbuf[r][f] = InitRecord[f]
        /\ (Returned(r) /\ rbuf[r].valid) => Payload(rbuf[r]) \in published

\* ======================================================== region manager claims
CreateFailures == {EX_EXISTS, EX_CREATE, EX_SETSIZE, EX_MAP}
AttachFailures == {EX_OPEN, EX_MAPEXISTING}

\* p's step is the shm_open of a create: it reserves the name or throws
CreateCallStep(p) ==
    /\ pc[p] = "idle"
    /\ owner_'[p]
    /\ \/ pc'[p] = "ftruncate"
       \/ /\ outcome'[p] \in {EX_EXISTS, EX_CREATE}
          /\ <<outcome[p], errno_[p]>> # <<outcome'[p], errno_'[p]>>

\* p's step is the shm_open of an attach: it opens the object or throws
AttachCallStep(p) ==
    /\ pc[p] = "idle"
    /\ ~owner_'[p]
    /\ \/ pc'[p] = "attach_mmap"
       \/ /\ outcome'[p] = EX_OPEN
          /\ <<outcome[p], errno_[p]>> # <<outcome'[p], errno_'[p]>>

\* an attach of p to name n that meets no operating-system failure
AttachSucceeds(p, n, s) ==
    /\ AttachOpen(p, n, s, NoErr)
    /\ pc'[p] = "attach_mmap"
    /\ fd'[p] = ns[n]

\* C8: a create on a name whose segment exists throws the "already exists"
\* exception and leaves the namespace, every segment object and every mapping
\* as they were; while that segment exists the caller can attach to it (the
\* open of the attach is enabled and yields a descriptor of that segment).
C8_CreateOnExistingName ==
    /\ [][\A p \in Procs :
            (CreateCallStep(p) /\ ns[filename_'[p]] # NoSeg) =>
                /\ outcome'[p] = EX_EXISTS
                /\ UNCHANGED <<ns, segs, nsegs, raw_memory_, mapSize, fd, pc>>]_vars
    /\ [](\A p \in Procs :
            (pc[p] = "idle" /\ raw_memory_[p] = NoSeg /\ outcome[p] = EX_EXISTS
                /\ ns[filename_[p]] # NoSeg) =>
                ENABLED AttachSucceeds(p, filename_[p], reqSize[p]))

\* C8 witness: p, whose last failing call is the EEXIST of its refused
\* create, has since attached to the segment that another process created
\* and still owns
C8_Witness ==
    \E p, q \in Procs :
        /\ p # q
        /\ errno_[p] = EEXIST /\ ~owner_[p] /\ outcome[p] = OK
        /\ raw_memory_[p] # NoSeg /\ raw_memory_[p] = ns[filename_[p]]
        /\ raw_memory_[q] = raw_memory_[p] /\ owner_[q] /\ outcome[q] = OK

\* C9: an attach whose size differs from the size the creator gave the
\* segment fails and maps nothing.
C9_AttachSizeMismatchFails ==
    [][\A p \in Procs :
          (pc[p] = "attach_mmap" /\ segs[fd[p]].size # 0
              /\ segs[fd[p]].size # reqSize[p]) =>
              (raw_memory_'[p] = NoSeg /\ outcome'[p] # OK)]_vars

\* C10: an attach on a name without a segment fails with an outcome that no
\* attach failing for another reason produces, and creates no segment.
C10_AttachNotFoundDistinct ==
    /\ [][\A p \in Procs :
            (AttachCallStep(p) /\ ns[filename_'[p]] = NoSeg) =>
                (outcome'[p] \in AttachFailures /\ UNCHANGED <<ns, segs, nsegs>>)]_vars
    /\ [](\A p, q \in Procs :
            (outcome[p] \in AttachFailures /\ outcome[q] \in AttachFailures
                /\ errno_[p] = ENOENT /\ errno_[q] # ENOENT) =>
                outcome[p] # outcome[q])

\* ==================================================== segment lifetime claims
\* a create of p on name n that meets no operating-system failure
CreateSucceeds(p, n, s) ==
    /\ CreateOpen(p, n, s, NoErr)
    /\ pc'[p] = "ftruncate"
    /\ ns'[n] \notin {ns[m] : m \in Names} \cup {raw_memory_[q] : q \in Procs}

\* C11: a destroy leaves the name free; while the name is free a create on
\* it is not refused and gets a segment object no process has mapped; and
\* when that create completes, its record is the value-initialized record
\* and every other segment object is as it was, whatever it holds and
\* whoever still has it mapped.
C11_DestroyThenCreateIsFresh ==
    /\ [][\A p \in Procs, n \in Names :
            (pc[p] = "idle" /\ outcome'[p] \in {UNLINKED, NOT_UNLINKED}
                /\ outcome'[p] # outcome[p]) => ns'[n] = NoSeg]_vars
    /\ [](\A p \in Procs, n \in Names :
            (ns[n] = NoSeg /\ pc[p] = "idle" /\ raw_memory_[p] = NoSeg
                /\ nsegs < MaxSegs) =>
                ENABLED CreateSucceeds(p, n, SizeofTradingData))
    /\ [][\A p \in Procs :
            (pc[p] = "construct" /\ pc'[p] # "construct") =>
                /\ outcome'[p] = OK
                /\ raw_memory_'[p] = raw_memory_[p]
                /\ ns'[filename_[p]] = ns[filename_[p]]
                /\ segs'[raw_memory_[p]].rec = InitRecord
                /\ segs'[raw_memory_[p]].size = reqSize[p]
                /\ \A s \in SegIds \ {raw_memory_[p]} : segs'[s] = segs[s]]_vars

\* C11 witness: after a destroy/create cycle the creator holds a new segment
\* with the value-initialized record while a reader still has the previous
\* segment, which holds a stored price, mapped
C11_Witness ==
    \E r \in Readers :
        /\ outcome[Writer] = OK /\ pc[Writer] = "idle"
        /\ raw_memory_[Writer] = 2 /\ ns[ShmName] = 2
        /\ Mem(Writer) = InitRecord
        /\ raw_memory_[r] = 1 /\ segs[1].rec.price = 1

\* C12: a second or later detach of the same pointer returns true and
\* leaves every mapping of the process, the namespace and the segment
\* objects as they were after the first.
C12_DetachIdempotent ==
    [][\A p \in Procs :
          DetachAgain(p) =>
              /\ outcome'[p] = DETACHED
              /\ raw_memory_' = raw_memory_
              /\ mapSize' = mapSize
              /\ ns' = ns
              /\ segs' = segs]_vars

\* C13: the name of a segment is removed only by a step of the process that
\* created the segment; the release of an attached handle leaves the
\* namespace alone; and a process's mapping goes away only by its own
\* release, not when another process destroys the segment.
C13_OnlyCreatorRemovesName ==
    /\ [][\A n \in Names :
            (ns[n] # NoSeg /\ ns'[n] = NoSeg) =>
                \E p \in Procs :
                    /\ segs[ns[n]].creator = p
                    /\ \/ destroy_memory_block(p, n)
                       \/ Dtor(p)
                       \/ CreateTruncate(p, TRUE)
                       \/ CreateMap(p, TRUE)]_vars
    /\ [][\A p \in Procs : (Dtor(p) /\ ~owner_[p]) => ns' = ns]_vars
    /\ [][\A p \in Procs :
            (raw_memory_[p] # NoSeg /\ raw_memory_'[p] # raw_memory_[p]) =>
                Dtor(p)]_vars

\* C14: for each name at most one process at a time holds a mapped handle
\* in the creator/owner role.
C14_AtMostOneOwnerPerName ==
    \A n \in Names :
        Cardinality({p \in Procs : owner_[p] /\ raw_memory_[p] # NoSeg
                                      /\ filename_[p] = n}) <= 1

\* ================================================ child supervision, main.cpp
\* the handler returns with this step
HandlerReturns ==
    \/ hpc = "none" /\ running /\ ~running' /\ hpc' = "none"
    \/ hpc = "waitpid" /\ hpc' = "none"

\* ======================================================= PythonLauncher claims
\* the callbacks other than on_started invoked for the present child
ExitCallbacks == SelectSeq(callbacks, LAMBDA c : c # "on_started")

C17_OneCallbackPerExit ==
    /\ [](Len(ExitCallbacks) <= 1)
    /\ [](state_ \in {"TERMINATED", "CRASHED"} =>
             /\ exitst \in {"exit0", "stopped"} =>
                    ExitCallbacks = <<"on_terminated">>
             /\ exitst \in {"exit1", "signal"} =>
                    ExitCallbacks = <<"on_crashed">>)
    /\ [][(update /\ state_ # "RUNNING") =>
             UNCHANGED <<state_, process_pid_, restart_count_, callbacks,
                         child, exitst>>]_vars

\* C17 witness: the child was killed by a signal, on_crashed was invoked
\* once, and an update after that found nothing to report
C17_Witness ==
    /\ state_ = "CRASHED"
    /\ exitst = "signal"
    /\ callbacks = <<"on_started", "on_crashed">>
    /\ ret = "nothing seen"

\* C20: a restart that is accepted adds one to restart_count_; a restart
\* called when max_restart_attempts restarts have been made is refused and
\* leaves the launcher and the child as they are; restart_count_ never
\* exceeds max_restart_attempts.
C20_RestartsAreBounded ==
    /\ [](restart_count_ <= max_restart_attempts)
    /\ [][restart_count_' # restart_count_ =>
             /\ restart_count_' = restart_count_ + 1
             /\ spc = "idle" /\ spc' = "restart_start"]_vars
    /\ [][restart =>
             IF restart_count_ >= max_restart_attempts
             THEN /\ ret' = "restart refused"
                  /\ UNCHANGED <<state_, process_pid_, restart_count_,
                                 spawned, spc, callbacks, child, exitst>>
             ELSE spc' = "restart_start" =>
                      restart_count_' = restart_count_ + 1]_vars

\* C20 witness: with max_restart_attempts restarts made, a further restart
\* has been refused and the child of the last restart still runs
C20_Witness ==
    /\ restart_count_ = max_restart_attempts
    /\ ret = "restart refused"
    /\ state_ = "RUNNING"
    /\ child = "running"

\* C16: a child whose exec failed is reported to the caller as a failed
\* start (the launch returns -1), and no line says that it was launched.
C16_ExecFailureIsReported ==
    exitst = "execfail" =>
        /\ out \cap {MSG_LAUNCHED, MSG_BRIDGE} = {}
        /\ wpc \notin {"launch", "assign"} => python_pid = -1

\* C18: when the stop of the child returns, no running and no zombie child
\* of the process remains.
C18_StopReturnsReaped ==
    [][HandlerReturns => child' \in {"none", "reaped"}]_vars

\* C19: the stop of the child does not wait longer than shutdown_timeout:
\* a child that does not end on the graceful request is killed then.
C19_StopIsTimeBounded ==
    hpc = "waitpid" => waited <= shutdown_timeout

\* C21: when update() sees a crash and auto_restart is configured, on_crashed
\* is invoked and a restart is begun, unless max_restart_attempts restarts
\* have been made: then none is begun, the launcher is left CRASHED and no
\* later update() moves it. Without auto_restart no update() begins a restart.
C21_CrashRestartsOnlyIfConfigured ==
    [][update =>
          /\ (state_ = "RUNNING" /\ child = "zombie"
                  /\ exitst \in {"exit1", "signal"}) =>
                 /\ callbacks' = Append(callbacks, "on_crashed")
                 /\ state_' = "CRASHED"
                 /\ IF auto_restart /\ restart_count_ < max_restart_attempts
                    THEN /\ spc' = "restart_start"
                         /\ restart_count_' = restart_count_ + 1
                    ELSE /\ spc' = "idle"
                         /\ restart_count_' = restart_count_
                         /\ spawned' = spawned
          /\ (state_ \in {"CRASHED", "FAILED_TO_START"}) =>
                 UNCHANGED <<state_, restart_count_, spawned, spc, child>>
          /\ ~auto_restart => UNCHANGED <<restart_count_, spawned, spc>>]_vars

\* C21 witness: with auto_restart three crashes have been restarted and the
\* fourth has been reported and left alone
C21_Witness ==
    /\ auto_restart
    /\ state_ = "CRASHED"
    /\ restart_count_ = max_restart_attempts
    /\ ret = "restart limit exceeded"
    /\ callbacks = <<"on_started", "on_crashed">>

\* C22: on an interrupt the writer loop stops publishing before the child is
\* stopped, and the segment is released only after both: once the handler
\* has stopped and reaped the child nothing more is stored into the
\* segment, and the writer's mapping is gone only when main has left its loop.
C22_ShutdownOrder ==
    /\ [][(child = "reaped" /\ exitst = "signal") => segs' = segs]_vars
    /\ [](raw_memory_[Writer] = NoSeg => wpc = "exited")

\* what belongs to reader q alone: its mapping, its call in progress, its
\* locals and the results it has got
ReaderState(q) ==
    <<pc[q], fd[q], raw_memory_[q], mapSize[q], owner_[q], filename_[q],
      reqSize[q], outcome[q], errno_[q], rpc[q], rbuf[q], rloaded[q], seq1[q],
      seq2[q], attempts[q], snap[q]>>

Members == <<[name |-> "price", size |-> 8],
             [name |-> "timestamp", size |-> 8],
             [name |-> "volume", size |-> 4],
             [name |-> "valid", size |-> 1]>>

AlignUp(n, a) == ((n + a - 1) \div a) * a

\* the offset the compiler gives the i-th member
RECURSIVE OffsetAt(_)
OffsetAt(i) ==
    IF i = 1 THEN 0
             ELSE AlignUp(OffsetAt(i - 1) + Members[i - 1].size, Members[i].size)

OffsetOf(f) == OffsetAt(CHOOSE i \in 1..Len(Members) : Members[i].name = f)

\* sizeof(TradingData): the end of the last member, rounded up to the
\* alignment of the struct
StructSize ==
    LET last == Len(Members)
        align == CHOOSE a \in {Members[i].size : i \in 1..last} :
                     \A i \in 1..last : Members[i].size <= a
    IN  AlignUp(OffsetAt(last) + Members[last].size, align)

\* C24: a segment that has been given its size has the 32 bytes of the
\* record, which holds a sequence counter at offset 0, price at 8, timestamp
\* at 16, volume at 24 and valid at 28, and every reader maps and decodes
\* 32 bytes.
C24_RecordIs32Bytes ==
    /\ \A s \in 1..nsegs :
           segs[s].size # 0 =>
               /\ segs[s].size = SizeofSeqData
               /\ StructSize = SizeofSeqData
               /\ OffsetOf("price") = 8
               /\ OffsetOf("timestamp") = 16
               /\ OffsetOf("volume") = 24
               /\ OffsetOf("valid") = 28
    /\ \A r \in Readers : mapSize[r] \in {0, SizeofSeqData}

\* C25: an interrupt delivered to the producer at any point, also before the
\* child is launched, leads to the writer loop stopped and the child
\* terminated and reaped: the producer, which leaves its loop only on an
\* interrupt, has not ended while a child it forked is alive or unreaped.
C25_InterruptStopsChild ==
    wpc = "exited" => child \in {"none", "reaped"}

\* C26: when the producing process has ended, by return, by an exception
\* during startup or by an interrupt in its update loop, no name in the
\* namespace refers to a segment it created.
C26_NoOrphanedSegment ==
    \A p \in Procs :
        (pc[p] = "idle" /\ raw_memory_[p] = NoSeg
             /\ outcome[p] \in {KILLED, NoOutcome, EX_SETSIZE, EX_MAP}) =>
            \A n \in Names : ns[n] = NoSeg \/ segs[ns[n]].creator # p

\* C27: a producer that has cleared the name at startup (its last region
\* call was destroy_memory_block) is not then refused the creation of the
\* segment because the name is taken.
C27_StartupNeverFindsNameTaken ==
    [][\A p \in Callers :
          (pc[p] = "idle" /\ outcome[p] \in {UNLINKED, NOT_UNLINKED}) =>
              outcome'[p] # EX_EXISTS]_vars

\* one pass of the Reader's do-body over a record that no store changes
\* meanwhile: the four loads and the loop condition
AttemptOn(mem) ==
    LET s1 == mem.sequence
        price == mem.price
        time == mem.timestamp
        s2 == mem.sequence
    IN  [again |-> (s1 # s2 \/ s1 % 2 = 1),
         sequence |-> s1, price |-> price, timestamp |-> time]

\* the last step of a pass of reader r: the second load of the counter
EndsPass(r) == rpc[r] = "sq_ld_seq2" /\ rpc'[r] # "sq_ld_seq2"

\* the update the writer completed last, or the initial values before the
\* first; new_price and new_time are the writer's own copies
LastCompleted ==
    IF tick = 0 THEN [price |-> 0, timestamp |-> 0]
                ELSE [price |-> current_price, timestamp |-> timestamp]

\* C28 as stated: a pass that starts at an even counter and meets no writer
\* step ends the read with the update completed last; a pass during which
\* the counter moved is rejected, and the pass that follows, if no writer
\* step falls into it, ends the read with a newer, complete update.
C28_UndisturbedRetryReturns ==
    [][\A r \in Readers :
          EndsPass(r) =>
              /\ (seq1[r] % 2 = 0 /\ Mem(r).sequence = seq1[r]) =>
                    /\ rpc'[r] = "idle"
                    /\ snap'[r].price = LastCompleted.price
                    /\ snap'[r].timestamp = LastCompleted.timestamp
              /\ Mem(r).sequence # seq1[r] =>
                    /\ rpc'[r] = "retry"
                    /\ ~AttemptOn(Mem(r)').again
                    /\ AttemptOn(Mem(r)').sequence > seq1[r]]_vars

\* C28 as amended: as C28 for the pass at an even counter and for the
\* rejected pass; the pass that follows a rejected one, if no writer step
\* falls into it, ends the read exactly when it starts at an even counter,
\* then with a newer update, the one completed last; a pass that starts at
\* an odd counter is always rejected.
C28_RetryReturnsOnceEven ==
    [][\A r \in Readers :
          EndsPass(r) =>
              /\ (seq1[r] % 2 = 0 /\ Mem(r).sequence = seq1[r]) =>
                    /\ rpc'[r] = "idle"
                    /\ snap'[r].sequence = seq1[r]
                    /\ snap'[r].price = LastCompleted.price
                    /\ snap'[r].timestamp = LastCompleted.timestamp
              /\ Mem(r).sequence # seq1[r] =>
                    /\ rpc'[r] = "retry"
                    /\ snap'[r] = snap[r]
                    /\ AttemptOn(Mem(r)').again <=> (Mem(r)'.sequence % 2 = 1)
                    /\ ~AttemptOn(Mem(r)').again =>
                          /\ AttemptOn(Mem(r)').sequence > seq1[r]
                          /\ AttemptOn(Mem(r)').price = LastCompleted'.price
                          /\ AttemptOn(Mem(r)').timestamp = LastCompleted'.timestamp
              /\ seq1[r] % 2 = 1 => rpc'[r] = "retry" /\ snap'[r] = snap[r]]_vars

\* C28 witness: one reader's pass from counter 2 was rejected because an
\* update had started, and the other reader, after a rejected pass, has
\* been handed the first update
C28_Witness ==
    /\ rpc[2] = "retry" /\ seq1[2] = 2 /\ seq2[2] = 3
    /\ rpc[3] = "idle" /\ attempts[3] > 0
    /\ snap[3] # NoSnap /\ snap[3].sequence = 2

\* C29: the validity flag is the last store of a publish: it is stored when
\* price, volume and timestamp already hold the values of that iteration; so
\* whenever the flag reads true none of the three holds its initial zero,
\* and none goes back to zero afterwards: a reader that has loaded
\* valid = true loads a published value from each.
C29_ValidStoredLast ==
    /\ [](\A p \in Procs :
             (raw_memory_[p] # NoSeg /\ Mem(p).valid) =>
                 /\ Mem(p).price # InitRecord.price
                 /\ Mem(p).timestamp # InitRecord.timestamp
                 /\ Mem(p).volume # InitRecord.volume)
    /\ [][\A s \in SegIds :
             /\ (segs'[s].rec.valid /\ ~segs[s].rec.valid) =>
                   /\ wpc = "st_valid" /\ wpc' = "loop"
                   /\ segs'[s].rec.price = current_price
                   /\ segs'[s].rec.volume = current_volume
                   /\ segs'[s].rec.timestamp = timestamp
             /\ segs[s].rec.valid =>
                   /\ segs'[s].rec.valid
                   /\ segs'[s].rec.price # InitRecord.price
                   /\ segs'[s].rec.timestamp # InitRecord.timestamp
                   /\ segs'[s].rec.volume # InitRecord.volume]_vars

\* C29 witness: a consumer attached to the segment is copying the record
\* while the second publish, a new price stored, has the flag of the first
\* still true
C29_Witness ==
    /\ tick = 1 /\ wpc = "st_volume"
    /\ Mem(Writer).valid
    /\ Mem(Writer).price = current_price
    /\ \E r \in Consumers : raw_memory_[r] = raw_memory_[Writer] /\ rpc[r] = "copy"

\* C30: when fork fails, python_pid is -1, the failure is on the output and
\* the producer goes on into its loop; the handler signals and waits only
\* for a python_pid that is positive and is the pid a successful fork
\* returned, so never after a failed fork and never before the launch.
C30_FailedForkIsNeverSignalled ==
    /\ [](python_pid = -1 =>
             /\ MSG_CONTINUE \in out
             /\ child = "none"
             /\ wpc \in {"loop", "st_price", "st_volume", "st_timestamp",
                         "st_valid", "return0", "exited"})
    /\ [][(hpc' = "waitpid" \/ child' = "signalled") =>
             /\ python_pid > 0
             /\ python_pid = ChildPid
             /\ child # "none"]_vars
    /\ [](python_pid <= 0 => hpc = "none" /\ waited = 0)

\* C30 witness: the fork failed, the producer published without a consumer,
\* was interrupted and has ended without a signal sent or a wait made
C30_Witness ==
    /\ python_pid = -1
    /\ MSG_CONTINUE \in out
    /\ tick >= 1
    /\ ~running
    /\ wpc = "exited"
    /\ hpc = "none"

\* ---------------------------------------------------------------------------
\* SystemSpec: the supervised simulator, class TradingSystem of
\* python_launcher.cpp.  The object owns the shared segment (shared_data_) and
\* a PythonLauncher (python_launcher_); main constructs it, calls
\* initialize(), run_market_simulation() and shutdown(), and destroys it when
\* the try block is left.  The record's symbol member is not part of the
\* modelled record, so the strcpy of the symbol only moves the position.
\* ---------------------------------------------------------------------------

\* sizeof(SimpleMarketData): three 8-byte members, char[16], bool, padding
SizeofSimpleMarketData == 48

\* the region variables a store into the record leaves alone
regionButSegs == <<ns, nsegs, pc, fd, raw_memory_, mapSize, owner_, filename_,
                   reqSize, outcome, errno_>>

\* the variables TradingSystem never touches
outsideSystem == <<now, current_price, current_volume, timestamp, published,
                   readerVars, python_pid, pid, hpc, out, waited,
                   auto_restart, addr, block>>

\* the launcher's variables
launcherState == <<state_, process_pid_, restart_count_, spawned, spc,
                   callbacks, ret, child, exitst>>

\* positions of run_market_simulation's loop body at which the record is
\* written
PublishPositions ==
    {"sim_price", "sim_volume", "sim_timestamp", "sim_symbol", "sim_ready"}

\* positions inside the while loop of run_market_simulation
LoopPositions == {"sim_loop", "sim_update", "sim_check"} \cup PublishPositions

\* is_running(): true if the process is active
is_running == state_ = "RUNNING"

\* the state after TradingSystem's constructor: segment created under the
\* name, mapped and owned by the simulator; launcher constructed, not started
SystemInit ==
    /\ ns = [n \in Names |-> 1]
    /\ segs = [s \in SegIds |->
                  IF s = 1 THEN [size |-> SizeofSimpleMarketData,
                                 rec |-> InitRecord, creator |-> Writer]
                           ELSE ZeroSegment]
    /\ nsegs = 1
    /\ pc = [p \in Procs |-> "idle"]
    /\ fd = [p \in Procs |-> NoSeg]
    /\ raw_memory_ = [p \in Procs |-> IF p = Writer THEN 1 ELSE NoSeg]
    /\ mapSize = [p \in Procs |->
                     IF p = Writer THEN SizeofSimpleMarketData ELSE 0]
    /\ owner_ = [p \in Procs |-> p = Writer]
    /\ filename_ = [p \in Procs |-> ShmName]
    /\ reqSize = [p \in Procs |->
                     IF p = Writer THEN SizeofSimpleMarketData ELSE 0]
    /\ outcome = [p \in Procs |-> IF p = Writer THEN OK ELSE NoOutcome]
    /\ errno_ = [p \in Procs |-> NoErr]
    /\ wpc = "initialize"
    /\ running = TRUE
    /\ tick = 0
    /\ now = 1
    /\ current_price = 0
    /\ current_volume = 0
    /\ timestamp = 0
    /\ published = {}
    /\ rpc = [r \in Readers |-> "idle"]
    /\ rbuf = [r \in Readers |-> InitRecord]
    /\ rloaded = [r \in Readers |-> {}]
    /\ seq1 = [r \in Readers |-> 0]
    /\ seq2 = [r \in Readers |-> 0]
    /\ attempts = [r \in Readers |-> 0]
    /\ snap = [r \in Readers |-> NoSnap]
    /\ ProcInit

\* initialize(): resets the record, starts the consumer, reports whether the
\* start succeeded
SysInitialize(ok) ==
    /\ wpc = "initialize"
    /\ segs' = [segs EXCEPT ![raw_memory_[Writer]].rec = InitRecord]
    /\ StartEffect(ok)
    /\ wpc' = IF ok THEN "sim_loop" ELSE "init_failed"
    /\ UNCHANGED <<regionButSegs, running, tick, restart_count_, spc,
                   outsideSystem>>

\* while (running): the loop is left when the flag was cleared
SimLoopHead ==
    /\ wpc = "sim_loop"
    /\ running => tick < MaxPublish
    /\ wpc' = IF running THEN "sim_update" ELSE "shutdown"
    /\ UNCHANGED <<regionVars, running, tick, launcherState, outsideSystem>>

\* python_launcher_->update()
SimUpdate ==
    /\ wpc = "sim_update"
    /\ UpdateEffect
    /\ wpc' = "sim_check"
    /\ UNCHANGED <<regionVars, running, tick, spawned, outsideSystem>>

\* a check that publishes whatever the launcher reports
SimCheck_IgnoresState ==
    /\ wpc = "sim_check"
    /\ wpc' = "sim_price"
    /\ UNCHANGED <<regionVars, running, tick, launcherState, outsideSystem>>

\* if (!python_launcher_->is_running()) break;
SimCheck ==
    /\ wpc = "sim_check"
    /\ wpc' = IF is_running THEN "sim_price" ELSE "shutdown"
    /\ UNCHANGED <<regionVars, running, tick, launcherState, outsideSystem>>

\* one store of the loop body into the record
SimStore(at, field, value, next) ==
    /\ wpc = at
    /\ Store(field, value)
    /\ wpc' = next
    /\ UNCHANGED <<regionButSegs, running, tick, launcherState, outsideSystem>>

SimStorePrice == SimStore("sim_price", "price", tick + 1, "sim_volume")

SimStoreVolume == SimStore("sim_volume", "volume", tick + 1, "sim_timestamp")

SimStoreTimestamp ==
    SimStore("sim_timestamp", "timestamp", now + tick, "sim_symbol")

\* strcpy(data->symbol, "AAPL")
SimStoreSymbol ==
    /\ wpc = "sim_symbol"
    /\ wpc' = "sim_ready"
    /\ UNCHANGED <<regionVars, running, tick, launcherState, outsideSystem>>

\* data->data_ready = true; tick++
SimStoreReady ==
    /\ wpc = "sim_ready"
    /\ Store("valid", TRUE)
    /\ tick' = tick + 1
    /\ wpc' = "sim_loop"
    /\ UNCHANGED <<regionButSegs, running, launcherState, outsideSystem>>

\* shutdown(): data->data_ready = false
SysShutdownFlag ==
    /\ wpc = "shutdown"
    /\ Store("valid", FALSE)
    /\ wpc' = "shutdown_stop"
    /\ UNCHANGED <<regionButSegs, running, tick, launcherState, outsideSystem>>

\* shutdown(): python_launcher_->stop(true)
SysShutdownStop(intime) ==
    /\ wpc = "shutdown_stop"
    /\ StopEffect(TRUE, intime)
    /\ wpc' = "sim_return"
    /\ UNCHANGED <<regionVars, running, tick, restart_count_, spawned, spc,
                   outsideSystem>>

\* ~TradingSystem, first half: ~PythonLauncher ensures a clean shutdown
SysLauncherDtor(intime) ==
    /\ wpc \in {"init_failed", "sim_return"}
    /\ StopEffect(TRUE, intime)
    /\ wpc' = IF wpc = "init_failed" THEN "unwind_failed" ELSE "unwind"
    /\ UNCHANGED <<regionVars, running, tick, restart_count_, spawned, spc,
                   outsideSystem>>

\* ~TradingSystem, second half: the segment's owner detaches and destroys;
\* main returns 1 after a failed initialize and 0 otherwise
SysSharedDtor ==
    /\ wpc \in {"unwind_failed", "unwind"}
    /\ Dtor(Writer)
    /\ wpc' = IF wpc = "unwind_failed" THEN "exit1" ELSE "exited"
    /\ UNCHANGED <<running, tick, launcherState, outsideSystem>>

\* signal_handler of python_launcher.cpp: only clears the flag
SysSignal ==
    /\ running
    /\ wpc \notin {"exit1", "exited"}
    /\ running' = FALSE
    /\ UNCHANGED <<regionVars, wpc, tick, launcherState, outsideSystem>>

SystemNext ==
    \/ \E ok \in BOOLEAN : SysInitialize(ok)
    \/ SimLoopHead
    \/ SimUpdate
    \/ SimCheck
    \/ SimStorePrice
    \/ SimStoreVolume
    \/ SimStoreTimestamp
    \/ SimStoreSymbol
    \/ SimStoreReady
    \/ SysShutdownFlag
    \/ \E intime \in BOOLEAN : SysShutdownStop(intime)
    \/ \E intime \in BOOLEAN : SysLauncherDtor(intime)
    \/ SysSharedDtor
    \/ SysSignal
    \/ \E how \in {"exit0", "exit1"} : ChildExit(how)

SystemSpec == SystemInit /\ [][SystemNext]_vars

\* C31: in TradingSystem's loop every store into the shared record happens at
\* a position reached, in the same iteration, through update() followed by an
\* is_running() that was true: the loop body is entered only from the check,
\* the check only from update(), the launcher is RUNNING at every publishing
\* position, and once the check saw "not running" the loop is left for good
\* and no loop position is entered again.
C31_PublishOnlyAfterRunningPoll ==
    /\ [](wpc \in PublishPositions =>
              state_ = "RUNNING" /\ ret = "nothing seen")
    /\ [][/\ (wpc \in LoopPositions /\ segs' # segs) =>
                 (wpc \in PublishPositions /\ is_running)
          /\ (wpc' = "sim_price" /\ wpc # "sim_price") =>
                 (wpc = "sim_check" /\ is_running)
          /\ (wpc' = "sim_check" /\ wpc # "sim_check") =>
                 (wpc = "sim_update" /\ ret' \in {"nothing seen", "exit seen"})
          /\ (wpc = "sim_check" /\ ~is_running /\ wpc' # wpc) =>
                 (wpc' = "shutdown")
          /\ (wpc \notin LoopPositions /\ wpc # "initialize") =>
                 (wpc' \notin LoopPositions)]_vars

\* the loop published, then polled, saw the consumer gone and left
C31_Witness ==
    /\ wpc = "shutdown"
    /\ running
    /\ tick >= 1
    /\ state_ \in {"TERMINATED", "CRASHED"}
    /\ ret = "exit seen"
    /\ Mem(Writer).valid

\* C32: the step of a create that reports the size or the mapping failure
\* leaves the name it had reserved absent from the namespace, and the step
\* that completes a create leaves the caller with a mapping; a caller whose
\* last outcome is success of a create holds a mapped handle.
C32_FailedCreateFreesName ==
    /\ [][\A p \in Callers :
             /\ (pc[p] \in {"ftruncate", "mmap"} /\ pc'[p] = "idle") =>
                    /\ outcome'[p] \in {EX_SETSIZE, EX_MAP}
                    /\ ns'[filename_[p]] = NoSeg
                    /\ raw_memory_'[p] = NoSeg
             /\ (pc[p] = "construct" /\ pc'[p] = "idle") =>
                    /\ outcome'[p] = OK
                    /\ raw_memory_'[p] \in SegIds
                    /\ mapSize'[p] = reqSize[p]]_vars
    /\ [](\A p \in Callers :
             (outcome[p] = OK /\ owner_[p]) => raw_memory_[p] \in SegIds)

\* both failures after the reservation have happened, each caller's name is
\* free again and the segments they had made exist without a name
C32_Witness ==
    \E p, q \in Callers :
        /\ outcome[p] = EX_SETSIZE
        /\ outcome[q] = EX_MAP
        /\ ns[filename_[p]] = NoSeg
        /\ ns[filename_[q]] = NoSeg
        /\ nsegs >= 1

\* C33: an attach that returns a mapping returns it on a segment that has
\* already been given a size by its creator and whose creator has finished
\* constructing the record in it.
C33_AttachSeesFinishedSegment ==
    [][\A p \in Callers :
          (pc[p] = "attach_mmap" /\ outcome'[p] = OK) =>
              /\ segs'[raw_memory_'[p]].size \in Sizes
              /\ \A c \in Callers :
                     pc[c] \in {"ftruncate", "mmap", "construct"} =>
                         fd[c] # raw_memory_'[p] /\ raw_memory_[c] # raw_memory_'[p]]_vars

\* C34: whenever signal_handler sends SIGTERM (it enters its kill and waitpid
\* branch), python_pid is the id of the producer's own child and that child
\* has not been reaped; after a first interrupt has reaped the child, a later
\* interrupt sends nothing.
C34_SignalOnlyToLiveChild ==
    [][(hpc = "none" /\ hpc' = "waitpid") =>
           /\ python_pid = ChildPid
           /\ child \in {"forked", "running", "signalled", "zombie"}]_vars

WriterOf(w, n) ==
    /\ owner_[w]
    /\ raw_memory_[w] # NoSeg
    /\ filename_[w] = n
    /\ pc[w] = "idle"

\* C36: whenever a writer is running under a name, every process that holds
\* a mapping it got by a successful attach to that name maps a segment that
\* some running writer of the name has mapped too; stated for the runs in
\* which no region call has failed.
C36_ReaderMapsTheWritersSegment ==
    \A r \in Callers :
        (/\ ~owner_[r]
         /\ raw_memory_[r] # NoSeg
         /\ outcome[r] = OK
         /\ \A q \in Procs : errno_[q] = NoErr
         /\ \E w \in Callers : WriterOf(w, filename_[r])) =>
            \E w \in Callers :
                WriterOf(w, filename_[r]) /\ raw_memory_[w] = raw_memory_[r]

====
